---- MODULE Spec2Model ----
(***************************************************************************)
(* OptimusDB catalog adapter: the response normalizer, the command         *)
(* dispatcher, the URI codec, the table lookup and the search ranker of    *)
(* metadata_service/proxy/optimusdb_proxy.py, with the search service's    *)
(* and the background indexer's copies of the normalizer.                  *)
(*                                                                         *)
(* Text is a sequence of one-character strings, so that the string         *)
(* operations of the code (replace, split, strip, lower, startswith, in)   *)
(* are computed and not assumed.  A JSON value is a tagged record; a JSON  *)
(* object is the sequence of its fields in iteration order.                *)
(***************************************************************************)
EXTENDS Integers, Sequences, FiniteSets, TLC

VARIABLES
    reply,        \* normalizer: the HTTP response handed to the normalizer
    normalized,   \* normalizer: what the three normalizers returned for it
    uri,          \* codec: the URI string handed to the decoder
    triple,       \* codec: the {database, schema, name} the URI was encoded from
    decoded,      \* codec: the decoder's result
    catalog,      \* backend: the records of the datacatalog table
    backend,      \* backend: how the node answers a request
    lookup,       \* get_table: the URI and the returned table entity
    search,       \* get_table_by_search: the request, the handler's locals, the reply
    call          \* any other operation: its name, its arguments and what it returned

normVars   == <<reply, normalized>>
codecVars  == <<uri, triple, decoded>>
storeVars  == <<catalog, backend>>
vars       ==
    <<reply, normalized, uri, triple, decoded, catalog, backend, lookup, search, call>>

None == [t |-> "none"]

\* the keys of the JSON objects and records the code reads
K ==
    [data |-> <<"d","a","t","a">>,
     records |-> <<"r","e","c","o","r","d","s">>,
     error |-> <<"e","r","r","o","r">>,
     message |-> <<"m","e","s","s","a","g","e">>,
     name |-> <<"n","a","m","e">>,
     description |-> <<"d","e","s","c","r","i","p","t","i","o","n">>,
     tags |-> <<"t","a","g","s">>,
     badges |-> <<"b","a","d","g","e","s">>,
     tag |-> <<"t","a","g">>,
     labels |-> <<"l","a","b","e","l","s">>,
     created_by |-> <<"c","r","e","a","t","e","d","_","b","y">>,
     owner |-> <<"o","w","n","e","r">>,
     owners |-> <<"o","w","n","e","r","s">>,
     author |-> <<"a","u","t","h","o","r">>,
     ownership_details |-> <<"o","w","n","e","r","s","h","i","p","_","d","e","t","a","i","l",
         "s">>,
     created_user |-> <<"c","r","e","a","t","e","d","_","u","s","e","r">>,
     user |-> <<"u","s","e","r">>,
     desc |-> <<"d","e","s","c">>,
     status |-> <<"s","t","a","t","u","s">>,
     priority |-> <<"p","r","i","o","r","i","t","y">>,
     type |-> <<"t","y","p","e">>,
     metadata_type |-> <<"m","e","t","a","d","a","t","a","_","t","y","p","e">>,
     component |-> <<"c","o","m","p","o","n","e","n","t">>,
     internal_id |-> <<"_","i","n","t","e","r","n","a","l","_","i","d">>,
     id |-> <<"_","i","d">>]

\* the string literals of the code, and the strings the requests are made of
S ==
    [Unknown_error |-> <<"U","n","k","n","o","w","n"," ","e","r","r","o","r">>,
     sales |-> <<"s","a","l","e","s">>,
     sales_report |-> <<"s","a","l","e","s","_","r","e","p","o","r","t">>,
     orders |-> <<"o","r","d","e","r","s">>,
     boom |-> <<"b","o","o","m">>,
     optimusdb |-> <<"o","p","t","i","m","u","s","d","b">>,
     public |-> <<"p","u","b","l","i","c">>,
     unknown |-> <<"u","n","k","n","o","w","n">>,
     default |-> <<"d","e","f","a","u","l","t">>,
     scheme |-> <<":","/","/">>,
     pct20 |-> <<"%","2","0">>,
     internal_prefix |-> <<"_","i","n","t","e","r","n","a","l","_">>,
     system |-> <<"s","y","s","t","e","m">>,
     company |-> <<"@","c","o","m","p","a","n","y",".","c","o","m">>,
     varchar |-> <<"v","a","r","c","h","a","r">>,
     no_description |-> <<"N","o"," ","d","e","s","c","r","i","p","t","i","o","n"," ", "a",
         "v","a","i","l","a","b","l","e">>,
     no_data |-> <<"N","o"," ","d","a","t","a"," ","a","v","a","i","l","a","b","l","e"," ",
          "f","o","r"," ","t","h","i","s"," ","t","a","b","l","e">>,
     NA |-> <<"N","/","A">>,
     active |-> <<"a","c","t","i","v","e">>,
     ecommerce_orders |-> <<"e","c","o","m","m","e","r","c","e",",","o","r","d","e","r","s">>,
     alice |-> <<"a","l","i","c","e">>,
     nope |-> <<"n","o","p","e">>,
     zeta |-> <<"z","e","t","a">>,
     none |-> <<"n","o","n","e">>,
     node |-> <<"o","p","t","i","m","u","s","d","b","1">>,
     discovered |-> <<"D","i","s","c","o","v","e","r","e","d"," ","d","a","t","a","s","e",
         "t"," ">>,
     from |-> <<" ","f","r","o","m"," ">>,
     None |-> <<"N","o","n","e">>,
     Sales_padded |-> <<" ","S","a","l","e","s"," ">>,
     star |-> <<"*">>,
     alice_bob |-> <<"a","l","i","c","e",","," ","b","o","b">>]

-----------------------------------------------------------------------------
(* Python str operations, on sequences of characters *)

IsSpace(c) == c \in {" ", "\t", "\n"}

LowerChar(c) ==
    CASE c = "S" -> "s"
      [] c = "A" -> "a"
      [] c = "D" -> "d"
      [] c = "X" -> "x"
      [] OTHER -> c

Lower(s) == [i \in 1..Len(s) |-> LowerChar(s[i])]

StartsWithAt(s, p, i) ==
    /\ i + Len(p) - 1 <= Len(s)
    /\ \A j \in 1..Len(p) : s[i + j - 1] = p[j]

StartsWith(s, p) == StartsWithAt(s, p, 1)

\* p in s
Contains(s, p) == \E i \in 1..(Len(s) - Len(p) + 1) : StartsWithAt(s, p, i)

\* s.find(p) + 1, 0 when p does not occur
Find(s, p) ==
    IF Contains(s, p)
    THEN CHOOSE i \in 1..(Len(s) - Len(p) + 1) :
            /\ StartsWithAt(s, p, i)
            /\ \A j \in 1..(i - 1) : ~StartsWithAt(s, p, j)
    ELSE 0

RECURSIVE ReplaceFrom(_, _, _, _)
ReplaceFrom(s, old, new, i) ==
    IF i > Len(s) THEN <<>>
    ELSE IF StartsWithAt(s, old, i)
         THEN new \o ReplaceFrom(s, old, new, i + Len(old))
         ELSE <<s[i]>> \o ReplaceFrom(s, old, new, i + 1)

\* s.replace(old, new), old non-empty
Replace(s, old, new) == ReplaceFrom(s, old, new, 1)

RECURSIVE LStrip(_)
LStrip(s) == IF s # <<>> /\ IsSpace(Head(s)) THEN LStrip(Tail(s)) ELSE s

RECURSIVE RStrip(_)
RStrip(s) ==
    IF s # <<>> /\ IsSpace(s[Len(s)]) THEN RStrip(SubSeq(s, 1, Len(s) - 1)) ELSE s

\* s.strip()
Strip(s) == RStrip(LStrip(s))

RECURSIVE SplitFrom(_, _, _, _)
SplitFrom(s, sep, i, cur) ==
    IF i > Len(s) THEN <<cur>>
    ELSE IF StartsWithAt(s, sep, i)
         THEN <<cur>> \o SplitFrom(s, sep, i + Len(sep), <<>>)
         ELSE SplitFrom(s, sep, i + 1, Append(cur, s[i]))

\* s.split(sep)
Split(s, sep) == SplitFrom(s, sep, 1, <<>>)

\* s.split(sep, 1)
SplitOnce(s, sep) ==
    LET i == Find(s, sep)
    IN  IF i = 0 THEN <<s>>
        ELSE <<SubSeq(s, 1, i - 1), SubSeq(s, i + Len(sep), Len(s))>>

-----------------------------------------------------------------------------
(* JSON values *)

JNull    == [t |-> "null"]
JNum(n)  == [t |-> "num", n |-> n]
JStr(s)  == [t |-> "str", s |-> s]
JList(l) == [t |-> "list", l |-> l]
JObj(f)  == [t |-> "obj", f |-> f]

\* A JSON text is what json.loads reads: `core` written as JSON and then written
\* `depth` times more as a JSON string literal.  core is a non-string JSON value
\* or Garbage, a text that is no JSON at all.
Garbage == [t |-> "garbage"]
JText(depth, core) == [depth |-> depth, core |-> core]

\* A str holding a JSON text (the value a string-wrapped reply parses to)
JWrapped(text) == [t |-> "wrapped", text |-> text]

IsStr(v)  == v.t \in {"str", "wrapped"}
IsDict(v) == v.t = "obj"

\* json.loads(text) raises JSONDecodeError
JsonLoadsRaises(text) == text.depth = 0 /\ text.core.t = "garbage"

\* json.loads(text), when it does not raise: one layer of string literal is read
JsonLoads(text) ==
    IF text.depth = 0 THEN text.core
    ELSE JWrapped(JText(text.depth - 1, text.core))

\* key in obj
HasKey(obj, key) == \E i \in 1..Len(obj.f) : obj.f[i].k = key

\* obj.get(key, default)
Get(obj, key, default) ==
    IF HasKey(obj, key)
    THEN obj.f[CHOOSE i \in 1..Len(obj.f) : obj.f[i].k = key].v
    ELSE default

Field(k, v) == [k |-> k, v |-> v]


\* {"data": {"records": records}}
RecordsReply(records) ==
    JObj(<<Field(K.data, JObj(<<Field(K.records, JList(records))>>))>>)

\* {"data": {"records": []}}
EmptyReply == RecordsReply(<<>>)

\* result.get("data", {}).get("records", []) of a normalizer result
RecordsOf(result) ==
    LET data == Get(result, K.data, JObj(<<>>))
    IN  IF IsDict(data) THEN Get(data, K.records, JList(<<>>)) ELSE None

\* What a handler hands its caller when an exception leaves it
Raised == [t |-> "raised"]

-----------------------------------------------------------------------------
(* Response normalizers *)

max_unwrap_attempts == 5

\* {"error": message, "data": {"records": []}}
ErrorReply(message) ==
    JObj(<<Field(K.error, message),
           Field(K.data, JObj(<<Field(K.records, JList(<<>>))>>))>>)


RECURSIVE UnwrapLoopOffByOne(_, _, _)
\* UnwrapLoop with the guard written attempts <= budget
UnwrapLoopOffByOne(result, attempts, budget) ==
    IF IsStr(result) /\ attempts <= budget
    THEN IF JsonLoadsRaises(result.text)
         THEN [exit |-> "decode_error", result |-> result, attempts |-> attempts,
               loads |-> attempts + 1]
         ELSE UnwrapLoopOffByOne(JsonLoads(result.text), attempts + 1, budget)
    ELSE [exit |-> "done", result |-> result, attempts |-> attempts, loads |-> attempts]

RECURSIVE UnwrapLoop(_, _, _)
\* The while loop: result and attempts are the loop's variables, budget its bound;
\* loads counts the json.loads calls made.  exit is "decode_error" when json.loads
\* raised inside the loop.
UnwrapLoop(result, attempts, budget) ==
    IF IsStr(result) /\ attempts < budget
    THEN IF JsonLoadsRaises(result.text)
         THEN [exit |-> "decode_error", result |-> result, attempts |-> attempts,
               loads |-> attempts + 1]
         ELSE UnwrapLoop(JsonLoads(result.text), attempts + 1, budget)
    ELSE [exit |-> "done", result |-> result, attempts |-> attempts, loads |-> attempts]

\* FinalValidation without the isinstance(result, dict) test
FinalValidationUnchecked(result) ==
    IF ~IsDict(result) THEN result
    ELSE IF ~HasKey(result, K.data) /\ ~HasKey(result, K.records)
         THEN IF HasKey(result, K.error) \/ HasKey(result, K.message)
              THEN ErrorReply(Get(result, K.error,
                         Get(result, K.message, JStr(S.Unknown_error))))
              ELSE EmptyReply
    ELSE result

\* "Final validation" and "Validate that result has expected structure"
FinalValidation(result) ==
    IF ~IsDict(result) THEN EmptyReply
    ELSE IF ~HasKey(result, K.data) /\ ~HasKey(result, K.records)
         THEN IF HasKey(result, K.error) \/ HasKey(result, K.message)
              THEN ErrorReply(Get(result, K.error,
                         Get(result, K.message, JStr(S.Unknown_error))))
              ELSE EmptyReply
    ELSE result

\* OptimusDBProxy._parse_optimusdb_response, with the loop's counters at return
ParseTrace(response) ==
    IF JsonLoadsRaises(response.body)
    THEN [value |-> EmptyReply, attempts |-> 0, loads |-> 0]
    ELSE LET u == UnwrapLoop(JsonLoads(response.body), 0, max_unwrap_attempts)
         IN  [value    |-> IF u.exit = "decode_error" THEN ErrorReply(u.result)
                           ELSE FinalValidation(u.result),
              attempts |-> u.attempts,
              loads    |-> u.loads]

ParseOptimusdbResponse(response) == ParseTrace(response).value

\* OptimusDBSearchProxy._parse_optimusdb_response: one re-parse at most
SearchParseOptimusdbResponse(response) ==
    IF JsonLoadsRaises(response.body) THEN EmptyReply
    ELSE LET first == JsonLoads(response.body)
         IN  IF IsStr(first)
             THEN IF JsonLoadsRaises(first.text) THEN EmptyReply
                  ELSE LET result == JsonLoads(first.text)
                       IN  IF IsDict(result) THEN result ELSE EmptyReply
             ELSE IF IsDict(first) THEN first ELSE EmptyReply

\* BackgroundIndexer._parse_response
IndexerParseResponse(response) ==
    IF JsonLoadsRaises(response.body) THEN EmptyReply
    ELSE LET u == UnwrapLoop(JsonLoads(response.body), 0, max_unwrap_attempts)
         IN  IF u.exit = "decode_error" THEN EmptyReply
             ELSE IF ~IsDict(u.result) THEN EmptyReply
             ELSE u.result

-----------------------------------------------------------------------------
(* The values the backend is driven with *)


RecSales  == JObj(<<Field(K.name, JStr(S.sales))>>)
RecOrders == JObj(<<Field(K.name, JStr(S.orders)), Field(K.tags, JStr(S.sales))>>)

\* the record sets a reply carries; the last holds a string and a null among the
\* records
RecordSets ==
    {<<>>, <<RecSales>>, <<RecOrders, RecSales>>, <<JStr(S.boom), JNull, RecSales>>}

\* the innermost values of a reply
ReplyCores ==
    {RecordsReply(R) : R \in RecordSets}
    \cup {JObj(<<Field(K.records, JList(<<RecSales>>))>>),
          JObj(<<Field(K.error, JStr(S.boom))>>),
          JObj(<<Field(K.message, JStr(S.boom))>>),
          JObj(<<Field(K.name, JStr(S.sales))>>),
          JObj(<<Field(K.data, JNull), Field(K.error, JStr(S.boom))>>),
          JList(<<RecSales>>), JNum(7), JNull, Garbage}

MaxWrap == 7

NotParsed == [proxy |-> None, attempts |-> 0, loads |-> 0,
              searchsvc |-> None, indexer |-> None]

\* the backend answers a request with a body wrapped `depth` times
BackendAnswers ==
    /\ \E depth \in 0..MaxWrap, core \in ReplyCores :
          reply' = [t |-> "response", ok |-> TRUE, body |-> JText(depth, core)]
    /\ normalized' = NotParsed
    /\ UNCHANGED <<codecVars, storeVars, lookup, search, call>>

ProxyNormalize ==
    /\ reply.t = "response"
    /\ normalized.proxy.t = "none"
    /\ LET tr == ParseTrace(reply)
       IN  normalized' = [normalized EXCEPT !.proxy = ParseOptimusdbResponse(reply),
                                    !.attempts = tr.attempts, !.loads = tr.loads]
    /\ UNCHANGED <<reply, codecVars, storeVars, lookup, search, call>>

SearchNormalize ==
    /\ reply.t = "response"
    /\ normalized.searchsvc.t = "none"
    /\ normalized' = [normalized EXCEPT !.searchsvc = SearchParseOptimusdbResponse(reply)]
    /\ UNCHANGED <<reply, codecVars, storeVars, lookup, search, call>>

IndexerNormalize ==
    /\ reply.t = "response"
    /\ normalized.indexer.t = "none"
    /\ normalized' = [normalized EXCEPT !.indexer = IndexerParseResponse(reply)]
    /\ UNCHANGED <<reply, codecVars, storeVars, lookup, search, call>>

InitIdle ==
    /\ reply = None
    /\ normalized = NotParsed
    /\ uri = None
    /\ triple = None
    /\ decoded = None
    /\ catalog = <<>>
    /\ backend = "ok"
    /\ lookup = None
    /\ search = None
    /\ call = None

NextNormalizer ==
    \/ BackendAnswers
    \/ ProxyNormalize
    \/ SearchNormalize
    \/ IndexerNormalize

SpecNormalizer == InitIdle /\ [][NextNormalizer]_vars

-----------------------------------------------------------------------------
(* Properties of the normalizers *)

\* the reply's innermost value is {"data": {"records": R}}
CarriesRecords(core) ==
    /\ core.t = "obj"
    /\ HasKey(core, K.data)
    /\ IsDict(Get(core, K.data, JNull))
    /\ HasKey(Get(core, K.data, JNull), K.records)

\* RecordsOf(result) is the list l
RecordsAre(result, l) ==
    /\ IsDict(result)
    /\ RecordsOf(result).t = "list"
    /\ RecordsOf(result).l = l

\* C1: a reply {"data": {"records": R}} that needs k re-parses is normalized by the
\* metadata proxy to a mapping with data.records = R for k = 1..5 and to the empty
\* record set for k >= 6; at most 5 re-parses are made and re-parsing stops at the
\* first non-string value (after exactly min(k, 5) re-parses).
C1_UnwrapBudget ==
    (/\ reply.t = "response"
     /\ normalized.proxy.t # "none"
     /\ CarriesRecords(reply.body.core)
     /\ reply.body.depth >= 1)
    => LET k == reply.body.depth
           R == RecordsOf(reply.body.core).l
       IN  /\ k <= 5 => RecordsAre(normalized.proxy, R)
           /\ k >= 6 => RecordsAre(normalized.proxy, <<>>)
           /\ normalized.loads <= 5
           /\ normalized.attempts = (IF k <= 5 THEN k ELSE 5)

\* C1 witness: a doubly-wrapped reply with two records was normalized to them
C1_Witness ==
    /\ reply.t = "response"
    /\ reply.body.depth = 2
    /\ CarriesRecords(reply.body.core)
    /\ RecordsAre(normalized.proxy, <<RecOrders, RecSales>>)

\* C2: for every reply the metadata proxy's normalizer returns a mapping and never
\* raises; when parsing fails at some step, the value is still a string after the
\* budget, or the final value is no mapping, the returned data.records is empty.
C2_NeverRaises ==
    (reply.t = "response" /\ normalized.proxy.t # "none")
    => /\ IsDict(normalized.proxy)
       /\ (reply.body.core.t # "obj" \/ reply.body.depth > 5)
             => RecordsAre(normalized.proxy, <<>>)

\* C2 witness: a reply whose third re-parse fails came back as an error mapping
\* with no records
C2_Witness ==
    /\ reply.t = "response"
    /\ reply.body.depth = 3
    /\ reply.body.core.t = "garbage"
    /\ IsDict(normalized.proxy)
    /\ HasKey(normalized.proxy, K.error)
    /\ RecordsAre(normalized.proxy, <<>>)


\* C21: when the reply, unwrapped, is a mapping that carries no records (neither
\* data.records nor a bare records key) and has an error or message field, the
\* metadata proxy's normalizer returns the empty record set together with that
\* message, also when the mapping has a data key that holds no records.
C21_ErrorWithEmptyRecords ==
    (/\ reply.t = "response"
     /\ normalized.proxy.t # "none"
     /\ reply.body.depth <= max_unwrap_attempts
     /\ IsDict(reply.body.core)
     /\ ~CarriesRecords(reply.body.core)
     /\ ~HasKey(reply.body.core, K.records)
     /\ HasKey(reply.body.core, K.error) \/ HasKey(reply.body.core, K.message))
    => /\ RecordsAre(normalized.proxy, <<>>)
       /\ Get(normalized.proxy, K.error, JNull)
             = Get(reply.body.core, K.error, Get(reply.body.core, K.message, JNull))

\* C13: every element of the record sequence the metadata proxy's normalizer
\* returns is a mapping: of the records list of the reply the elements that are no
\* mappings are dropped, the mappings are returned in order.
C13_RecordsAreMappings ==
    (/\ reply.t = "response"
     /\ normalized.proxy.t # "none"
     /\ IsDict(normalized.proxy)
     /\ RecordsOf(normalized.proxy).t = "list")
    => LET records == RecordsOf(normalized.proxy).l
       IN  /\ \A i \in 1..Len(records) : IsDict(records[i])
           /\ (/\ CarriesRecords(reply.body.core)
               /\ RecordsOf(reply.body.core).t = "list"
               /\ reply.body.depth <= max_unwrap_attempts)
              => records = SelectSeq(RecordsOf(reply.body.core).l, IsDict)


\* C30: for every reply the search service's normalizer and the metadata proxy's
\* normalizer return the same value at data.records; for a reply that carries a
\* non-empty list of records and needs 2 to 5 re-parses both return that list.
C30_NormalizersAgree ==
    (/\ reply.t = "response"
     /\ normalized.proxy.t # "none"
     /\ normalized.searchsvc.t # "none")
    => /\ IsDict(normalized.proxy) /\ IsDict(normalized.searchsvc)
       /\ RecordsOf(normalized.searchsvc) = RecordsOf(normalized.proxy)
       /\ (/\ CarriesRecords(reply.body.core)
           /\ RecordsOf(reply.body.core).t = "list"
           /\ RecordsOf(reply.body.core).l # <<>>
           /\ reply.body.depth \in 2..5)
          => RecordsOf(normalized.searchsvc) = RecordsOf(reply.body.core)

-----------------------------------------------------------------------------
(* URI codec *)


\* Python truth value of a str, None or number
Truthy(v) ==
    CASE v.t = "str"  -> v.s # <<>>
      [] v.t = "num"  -> v.n # 0
      [] v.t = "null" -> FALSE
      [] v.t = "list" -> v.l # <<>>
      [] v.t = "obj"  -> v.f # <<>>
      [] OTHER        -> TRUE

\* (v or default).replace(" ", "_"): Raised when v is truthy and no str
OrReplace(v, default) ==
    IF ~Truthy(v) THEN JStr(Replace(default, <<" ">>, <<"_">>))
    ELSE IF v.t = "str" THEN JStr(Replace(v.s, <<" ">>, <<"_">>))
    ELSE Raised

\* f"{database}://default.{schema}/{name}"
FormatKey(database, schema, name) ==
    database \o S.scheme \o S.default \o <<".">> \o schema \o <<"/">> \o name

\* OptimusDBProxy._build_table_key
BuildTableKey(database, schema, name) ==
    LET d == OrReplace(database, S.optimusdb)
        s == OrReplace(schema, S.public)
        n == OrReplace(name, S.unknown)
    IN  IF d.t = "raised" \/ s.t = "raised" \/ n.t = "raised" THEN Raised
        ELSE JStr(FormatKey(d.s, s.s, n.s))

\* OptimusDBSearchProxy._build_table_key
SearchBuildTableKey(database, schema, name) ==
    LET d == OrReplace(database, S.optimusdb)
        s == OrReplace(schema, S.default)
        n == OrReplace(name, S.unknown)
    IN  IF d.t = "raised" \/ s.t = "raised" \/ n.t = "raised" THEN Raised
        ELSE JStr(FormatKey(d.s, s.s, n.s))

Sentinel == [database |-> S.optimusdb, schema |-> S.default, name |-> S.unknown]

\* OptimusDBProxy._parse_table_uri
ParseTableUri(table_uri) ==
    IF table_uri.t # "str" THEN Sentinel      \* .strip() raises, the except returns
    ELSE
    LET stripped == Replace(Strip(table_uri.s), S.pct20, <<" ">>)
        parts    == Split(stripped, S.scheme)
        database == IF Len(parts) > 1 THEN parts[1] ELSE S.optimusdb
        rest     == IF Len(parts) > 1 THEN parts[2] ELSE stripped
        halves   == SplitOnce(rest, <<"/">>)
        schema   == IF Contains(rest, <<"/">>)
                    THEN IF Contains(halves[1], <<".">>)
                         THEN SplitOnce(halves[1], <<".">>)[2]
                         ELSE S.default
                    ELSE S.default
        name     == IF Contains(rest, <<"/">>) THEN halves[2] ELSE rest
    IN  [database |-> database,
         schema   |-> Replace(schema, <<"_">>, <<" ">>),
         name     |-> Replace(name, <<"_">>, <<" ">>)]

\* the names a key is built from
NamePool ==
    {<<>>, <<"d","b">>, <<"a"," ","b">>, <<"a","_","b">>, <<"a","/","b">>, <<"a",".","b">>}

\* the pieces a raw URI is typed from
UriTokens == {<<"a">>, <<"_">>, <<" ">>, <<"/">>, <<".">>, S.scheme, S.pct20}

MaxUriLen == 5

\* a caller encodes a {database, schema, name} into a key
EncodeKey ==
    /\ uri.t = "none"
    /\ \E d \in NamePool, s \in NamePool, n \in NamePool :
          LET key == BuildTableKey(JStr(d), JStr(s), JStr(n))
          IN  /\ triple' = [t |-> "triple", database |-> d, schema |-> s, name |-> n]
              /\ uri' = key
    /\ decoded' = None
    /\ UNCHANGED <<normVars, storeVars, lookup, search, call>>

\* a caller passes a URI of its own making, piece by piece
TypeUri ==
    /\ triple.t = "none"
    /\ \E tok \in UriTokens :
          LET cur == IF uri.t = "str" THEN uri.s ELSE <<>>
          IN  /\ Len(cur) + Len(tok) <= MaxUriLen
              /\ uri' = JStr(cur \o tok)
    /\ decoded' = None
    /\ UNCHANGED <<triple, normVars, storeVars, lookup, search, call>>

\* a caller passes the empty string, or no string at all
TypeDegenerateUri ==
    /\ uri.t = "none"
    /\ uri' \in {JStr(<<>>), JNull}
    /\ decoded' = None
    /\ UNCHANGED <<triple, normVars, storeVars, lookup, search, call>>

DecodeUri ==
    /\ uri.t # "none"
    /\ decoded.t = "none"
    /\ decoded' = [t |-> "triple", v |-> ParseTableUri(uri)]
    /\ UNCHANGED <<uri, triple, normVars, storeVars, lookup, search, call>>

NextCodec ==
    \/ EncodeKey
    \/ TypeUri
    \/ TypeDegenerateUri
    \/ DecodeUri

SpecCodec == InitIdle /\ [][NextCodec]_vars

-----------------------------------------------------------------------------
(* Properties of the URI codec *)

\* none of the characters the key format separates its parts with
SeparatorFree(s) ==
    ~Contains(s, <<"/">>) /\ ~Contains(s, <<".">>) /\ ~Contains(s, <<":">>)

\* C9: for every non-empty database, schema and name with no underscore in schema
\* or name, decoding the key encoded from them returns exactly {database, schema,
\* name}.  The components range over the identifiers of the data model: they hold
\* none of the separators "/", "." and ":".
C9_RoundTrip ==
    (/\ triple.t = "triple"
     /\ decoded.t = "triple"
     /\ triple.database # <<>> /\ triple.schema # <<>> /\ triple.name # <<>>
     /\ ~Contains(triple.schema, <<"_">>) /\ ~Contains(triple.name, <<"_">>)
     /\ SeparatorFree(triple.database)
     /\ SeparatorFree(triple.schema)
     /\ SeparatorFree(triple.name))
    => /\ decoded.v.database = triple.database
       /\ decoded.v.schema = triple.schema
       /\ decoded.v.name = triple.name

\* C10 (its parts on non-emptiness and on the sentinel): for every input string the
\* decoder returns a triple whose database, schema and name are all non-empty, and
\* an input from which no name can be recovered, the empty string or a URI ending
\* in "/", decodes to the sentinel {optimusdb, default, unknown}.
C10_DecoderSentinel ==
    (uri.t = "str" /\ decoded.t = "triple")
    => /\ decoded.v.database # <<>>
       /\ decoded.v.schema # <<>>
       /\ decoded.v.name # <<>>
       /\ (uri.s = <<>> \/ (uri.s # <<>> /\ uri.s[Len(uri.s)] = "/"))
             => decoded.v = Sentinel

-----------------------------------------------------------------------------
(* Entity mapper *)


\* a or b, on Python values
Or(a, b) == IF Truthy(a) THEN a ELSE b

\* [t.strip() for t in s.split(",") if t.strip()]
SplitCommaStripped(s) ==
    LET pieces == Split(s, <<",">>)
        kept   == SelectSeq(pieces, LAMBDA x : Strip(x) # <<>>)
    IN  [i \in 1..Len(kept) |-> Strip(kept[i])]

Tag(name) == [tag_name |-> name, tag_type |-> S.default]

\* json.loads of a str that starts with "[" and holds no comma: the arrays [] and
\* ["text"] are read, anything else raises
JsonArrayOf(s) ==
    IF s = <<"[", "]">> THEN [ok |-> TRUE, l |-> <<>>]
    ELSE IF /\ Len(s) >= 4
            /\ s[2] = "\"" /\ s[Len(s) - 1] = "\"" /\ s[Len(s)] = "]"
            /\ ~Contains(SubSeq(s, 3, Len(s) - 2), <<"\"">>)
         THEN [ok |-> TRUE, l |-> <<SubSeq(s, 3, Len(s) - 2)>>]
         ELSE [ok |-> FALSE, l |-> <<>>]

\* OptimusDBProxy._parse_tags_from_record
ParseTagsFromRecord(record) ==
    LET tags_str == Or(Or(Or(Get(record, K.tags, JNull), Get(record, K.tag, JNull)),
                          Get(record, K.labels, JNull)), JStr(<<>>))
    IN  IF ~Truthy(tags_str) THEN <<>>
        ELSE IF tags_str.t # "str" THEN <<>>
        ELSE IF Contains(tags_str.s, <<",">>)
             THEN LET tag_list == SplitCommaStripped(tags_str.s)
                  IN  [i \in 1..Len(tag_list) |-> Tag(tag_list[i])]
        ELSE IF StartsWith(tags_str.s, <<"[">>)
             THEN LET tag_list == JsonArrayOf(tags_str.s).l
                  IN  [i \in 1..Len(tag_list) |-> Tag(tag_list[i])]
        ELSE <<Tag(tags_str.s)>>

Owner(name) ==
    [display_name |-> name,
     email        |-> Replace(Lower(name), <<" ">>, <<".">>) \o S.company,
     user_id      |-> name]

owner_fields ==
    <<K.created_by, K.owner, K.owners, K.author, K.ownership_details,
      K.created_user, K.user>>

RECURSIVE AddCommaOwners(_, _)
\* the inner loop over value.split(","): acc is [owners, seen]
AddCommaOwners(pieces, acc) ==
    IF pieces = <<>> THEN acc
    ELSE LET owner == Strip(Head(pieces))
         IN  IF owner # <<>> /\ owner \notin acc.seen
             THEN AddCommaOwners(Tail(pieces),
                      [t      |-> "acc",
                       owners |-> Append(acc.owners, Owner(owner)),
                       seen   |-> acc.seen \cup {owner}])
             ELSE AddCommaOwners(Tail(pieces), acc)

RECURSIVE OwnersLoop(_, _, _)
\* the loop over owner_fields from field i on; Raised when `value in seen_owners`
\* raises TypeError (a list or a mapping cannot be hashed)
OwnersLoop(record, i, acc) ==
    IF i > Len(owner_fields) THEN acc
    ELSE LET value == Get(record, owner_fields[i], JNull)
         IN  IF ~Truthy(value) THEN OwnersLoop(record, i + 1, acc)
             ELSE IF value.t \in {"list", "obj"} THEN Raised
             ELSE IF value.t # "str" THEN OwnersLoop(record, i + 1, acc)
             ELSE IF value.s \in acc.seen THEN OwnersLoop(record, i + 1, acc)
             ELSE IF Contains(value.s, <<",">>)
                  THEN OwnersLoop(record, i + 1,
                           AddCommaOwners(Split(value.s, <<",">>), acc))
             ELSE OwnersLoop(record, i + 1,
                      [t      |-> "acc",
                       owners |-> Append(acc.owners, Owner(value.s)),
                       seen   |-> acc.seen \cup {value.s}])

\* OptimusDBProxy._parse_owners_from_record: the owners list, or Raised
ParseOwnersFromRecord(record) ==
    LET acc == OwnersLoop(record, 1, [t |-> "acc", owners |-> <<>>, seen |-> {}])
    IN  IF acc.t = "raised" THEN Raised
        ELSE IF acc.owners = <<>> THEN [t |-> "owners", l |-> <<Owner(S.system)>>]
        ELSE [t |-> "owners", l |-> acc.owners]

UpperChar(c) ==
    CASE c = "i" -> "I" [] c = "n" -> "N" [] c = "t" -> "T" [] c = "e" -> "E"
      [] c = "x" -> "X" [] c = "b" -> "B" [] c = "o" -> "O" [] c = "l" -> "L"
      [] c = "a" -> "A" [] c = "f" -> "F" [] c = "d" -> "D" [] c = "g" -> "G"
      [] c = "r" -> "R" [] c = "v" -> "V" [] c = "c" -> "C" [] c = "h" -> "H"
      [] c = "s" -> "S" [] c = "m" -> "M" [] c = "p" -> "P" [] c = "u" -> "U"
      [] c = "j" -> "J" [] c = "y" -> "Y" [] c = "k" -> "K" [] c = "q" -> "Q"
      [] c = "w" -> "W" [] c = "z" -> "Z"
      [] OTHER -> c

Upper(s) == [i \in 1..Len(s) |-> UpperChar(s[i])]

\* "Simplify type names for display"
SimplifyType(col_type) ==
    LET u == Upper(col_type)
    IN  IF u \in {<<"T","E","X","T">>, <<"V","A","R","C","H","A","R">>,
                  <<"S","T","R","I","N","G">>, <<"C","H","A","R">>}
        THEN S.varchar
        ELSE IF u \in {<<"I","N","T">>, <<"I","N","T","E","G","E","R">>,
                       <<"B","I","G","I","N","T">>, <<"S","M","A","L","L","I","N","T">>}
        THEN <<"i","n","t">>
        ELSE IF u \in {<<"F","L","O","A","T">>, <<"D","O","U","B","L","E">>,
                       <<"D","E","C","I","M","A","L">>, <<"N","U","M","E","R","I","C">>}
        THEN <<"f","l","o","a","t">>
        ELSE IF u \in {<<"T","I","M","E","S","T","A","M","P">>,
                       <<"D","A","T","E","T","I","M","E">>, <<"D","A","T","E">>}
        THEN <<"t","i","m","e","s","t","a","m","p">>
        ELSE IF u \in {<<"B","O","O","L","E","A","N">>, <<"B","O","O","L">>}
        THEN <<"b","o","o","l","e","a","n">>
        ELSE col_type

\* schema_map.get(field_name, 'varchar'): schema_info is a list of {name, type}
\* mappings, a later entry of a name replacing an earlier one
SchemaMapGet(schema_info, field_name) ==
    LET hits == SelectSeq(schema_info,
                    LAMBDA col : /\ Truthy(Get(col, K.name, JStr(<<>>)))
                                 /\ Get(col, K.name, JStr(<<>>)) = JStr(field_name))
    IN  IF hits = <<>> THEN S.varchar
        ELSE Get(hits[Len(hits)], K.type, JStr(S.varchar)).s

RECURSIVE ColumnsLoopCountingAll(_, _, _, _)
\* ColumnsLoop with sort_order also advanced for a skipped field
ColumnsLoopCountingAll(fields, i, sort_order, schema_info) ==
    IF i > Len(fields) THEN <<>>
    ELSE IF StartsWith(fields[i].k, S.internal_prefix)
         THEN ColumnsLoopCountingAll(fields, i + 1, sort_order + 1, schema_info)
         ELSE <<[name       |-> fields[i].k,
                 col_type   |-> SimplifyType(SchemaMapGet(schema_info, fields[i].k)),
                 sort_order |-> sort_order]>>
              \o ColumnsLoopCountingAll(fields, i + 1, sort_order + 1, schema_info)

RECURSIVE ColumnsLoop(_, _, _, _)
\* "Build columns from all fields in record": the loop from field i on, with its
\* counter sort_order; an internal field is skipped by `continue`
ColumnsLoop(fields, i, sort_order, schema_info) ==
    IF i > Len(fields) THEN <<>>
    ELSE IF StartsWith(fields[i].k, S.internal_prefix)
         THEN ColumnsLoop(fields, i + 1, sort_order, schema_info)
         ELSE <<[name       |-> fields[i].k,
                 col_type   |-> SimplifyType(SchemaMapGet(schema_info, fields[i].k)),
                 sort_order |-> sort_order]>>
              \o ColumnsLoop(fields, i + 1, sort_order + 1, schema_info)

\* OptimusDBProxy._build_columns_from_record: name, col_type and sort_order of each
\* column (the description and the sample value are left out)
BuildColumnsFromRecord(record, schema_info) == ColumnsLoop(record.f, 1, 0, schema_info)

\* _infer_column_type, of the values a record of the model holds
InferColumnType(value) ==
    IF value.t = "num" THEN <<"i","n","t">>
    ELSE IF /\ value.t = "str"
            /\ Contains(value.s, <<"T">>)
            /\ (Contains(value.s, <<"-">>) \/ Contains(value.s, <<":">>))
         THEN <<"t","i","m","e","s","t","a","m","p">>
    ELSE S.varchar

\* any(t in col_type_upper for t in words)
AnyIn(words, col_type_upper) == \E w \in words : Contains(col_type_upper, w)

\* _normalize_column_type
NormalizeColumnType(col_type) ==
    IF col_type = <<>> THEN S.varchar
    ELSE
    LET u == Upper(col_type)
    IN  IF AnyIn({<<"T","E","X","T">>, <<"V","A","R","C","H","A","R">>,
                  <<"S","T","R","I","N","G">>, <<"C","H","A","R">>,
                  <<"C","L","O","B">>}, u)
        THEN S.varchar
        ELSE IF AnyIn({<<"I","N","T">>, <<"I","N","T","E","G","E","R">>,
                       <<"B","I","G","I","N","T">>, <<"S","M","A","L","L","I","N","T">>,
                       <<"T","I","N","Y","I","N","T">>}, u)
        THEN <<"i","n","t">>
        ELSE IF AnyIn({<<"F","L","O","A","T">>, <<"D","O","U","B","L","E">>,
                       <<"D","E","C","I","M","A","L">>, <<"N","U","M","E","R","I","C">>,
                       <<"R","E","A","L">>}, u)
        THEN <<"f","l","o","a","t">>
        ELSE IF AnyIn({<<"T","I","M","E","S","T","A","M","P">>,
                       <<"D","A","T","E","T","I","M","E">>, <<"D","A","T","E">>,
                       <<"T","I","M","E">>}, u)
        THEN <<"t","i","m","e","s","t","a","m","p">>
        ELSE IF AnyIn({<<"B","O","O","L","E","A","N">>, <<"B","O","O","L">>,
                       <<"B","I","T">>}, u)
        THEN <<"b","o","o","l","e","a","n">>
        ELSE IF Contains(u, <<"J","S","O","N">>) THEN <<"j","s","o","n">>
        ELSE IF AnyIn({<<"B","L","O","B">>, <<"B","I","N","A","R","Y">>,
                       <<"B","Y","T","E","A">>}, u)
        THEN <<"b","i","n","a","r","y">>
        ELSE S.varchar

\* field_name in schema_map
InSchemaMap(schema_info, field_name) ==
    \E i \in 1..Len(schema_info) :
       /\ Truthy(Get(schema_info[i], K.name, JStr(<<>>)))
       /\ Get(schema_info[i], K.name, JStr(<<>>)) = JStr(field_name)

RECURSIVE EnhancedColumnsLoop(_, _, _, _)
\* the loop of _build_columns_from_record_enhanced: it also skips a field whose
\* name starts with "__"
EnhancedColumnsLoop(fields, i, sort_order, schema_info) ==
    IF i > Len(fields) THEN <<>>
    ELSE IF \/ StartsWith(fields[i].k, S.internal_prefix)
            \/ StartsWith(fields[i].k, <<"_", "_">>)
         THEN EnhancedColumnsLoop(fields, i + 1, sort_order, schema_info)
         ELSE <<[name       |-> fields[i].k,
                 col_type   |-> NormalizeColumnType(
                                    IF InSchemaMap(schema_info, fields[i].k)
                                    THEN SchemaMapGet(schema_info, fields[i].k)
                                    ELSE InferColumnType(fields[i].v)),
                 sort_order |-> sort_order]>>
              \o EnhancedColumnsLoop(fields, i + 1, sort_order + 1, schema_info)

\* _build_columns_from_record_enhanced: name, col_type and sort_order of each column
BuildColumnsFromRecordEnhanced(record, schema_info) ==
    IF record.f = <<>> THEN <<>>
    ELSE EnhancedColumnsLoop(record.f, 1, 0, schema_info)

highlight_fields ==
    <<K.author, K.component, <<"b","e","h","a","v","i","o","u","r">>, K.status,
      K.priority, K.type, <<"c","a","t","e","g","o","r","y">>,
      <<"e","n","v","i","r","o","n","m","e","n","t">>, <<"v","e","r","s","i","o","n">>,
      K.owner>>


\* OptimusDBProxy._build_enhanced_description: the base text and the highlights
\* appended to it (at most 5), kept apart instead of joined into one text
BuildEnhancedDescription(record, base_description) ==
    LET present == SelectSeq(highlight_fields,
                       LAMBDA fld : /\ Truthy(Get(record, fld, JNull))
                                    /\ Get(record, fld, JNull) # JStr(S.NA))
        parts   == [i \in 1..Len(present) |->
                       [field |-> present[i], value |-> Get(record, present[i], JNull)]]
    IN  [text |-> base_description,
         highlights |-> IF Len(parts) > 5 THEN SubSeq(parts, 1, 5) ELSE parts]


\* OptimusDBProxy._extract_badges: the badges list, or Raised when status or
\* priority is truthy and has no lower()
ExtractBadges(record) ==
    LET status   == Get(record, K.status, JNull)
        priority == Get(record, K.priority, JNull)
        one(v, category, hot) ==
            IF ~Truthy(v) THEN <<>>
            ELSE <<[badge_name |-> v.s, category |-> category,
                    badge_type |-> IF Lower(v.s) \in hot[1] THEN hot[2] ELSE S.default]>>
    IN  IF (Truthy(status) /\ status.t # "str") \/ (Truthy(priority) /\ priority.t # "str")
        THEN Raised
        ELSE [t |-> "badges",
              l |-> one(status, K.status,
                        <<{S.active}, <<"s","u","c","c","e","s","s">>>>)
                    \o one(priority, K.priority,
                        <<{<<"c","r","i","t","i","c","a","l">>, <<"h","i","g","h">>},
                          <<"d","a","n","g","e","r">>>>)]

-----------------------------------------------------------------------------
(* Backend and command dispatcher *)

\* How the node answers: with the plain reply, with the reply string-wrapped twice,
\* with a body that is no JSON, with a non-success status, or not at all
BackendModes == {"ok", "wrapped", "garbage", "http_error", "unreachable"}

\* the body of the node's reply to a query that yields `records`
BackendBody(mode, records) ==
    CASE mode = "wrapped" -> JText(2, RecordsReply(records))
      [] mode = "garbage" -> JText(0, Garbage)
      [] OTHER            -> JText(0, RecordsReply(records))

\* what the datastore holds for "select * from <table> where name='<name>' limit 1"
SelectByName(cat, name) ==
    LET hits == SelectSeq(cat, LAMBDA rec : Get(rec, K.name, JNull) = JStr(name))
    IN  IF hits = <<>> THEN <<>> ELSE <<hits[1]>>

\* what one call of a dispatcher did: the requests it posted, whether it read
\* the body of the reply, and the value it returned
Dispatched(requests, body_read, value) ==
    [requests |-> requests, body_read |-> body_read, value |-> value]

\* a dispatcher that posts a second time when the first post raised
ExecuteSqlRetrying(mode, records) ==
    IF mode = "unreachable" THEN Dispatched(2, FALSE, EmptyReply)
    ELSE IF mode = "http_error" THEN Dispatched(1, FALSE, EmptyReply)
    ELSE Dispatched(1, TRUE, ParseOptimusdbResponse(
             [t |-> "response", ok |-> TRUE, body |-> BackendBody(mode, records)]))

\* OptimusDBProxy._execute_sql, for a query that yields `records` on the
\* backend: one session.post on a Session with no retry adapter; a refused
\* connection and a timeout both make that post raise ("unreachable")
ExecuteSql(mode, records) ==
    IF mode = "unreachable" THEN Dispatched(1, FALSE, EmptyReply)   \* except Exception
    ELSE IF mode = "http_error" THEN Dispatched(1, FALSE, EmptyReply) \* not resp.ok
    ELSE Dispatched(1, TRUE, ParseOptimusdbResponse(
             [t |-> "response", ok |-> TRUE, body |-> BackendBody(mode, records)]))

-----------------------------------------------------------------------------
(* Table lookup *)

\* owners of GetEmptyTableResponse left empty
GetEmptyTableResponseNoOwner(table_uri) ==
    LET parsed == ParseTableUri(table_uri)
    IN  [t           |-> "table",
         database    |-> parsed.database,
         cluster     |-> S.optimusdb,
         schema      |-> parsed.schema,
         name        |-> parsed.name,
         key         |-> table_uri,
         description |-> [text |-> S.no_data, highlights |-> <<>>],
         columns     |-> <<>>,
         owners      |-> <<>>,
         tags        |-> <<>>,
         badges      |-> <<>>]

\* OptimusDBProxy._get_empty_table_response
GetEmptyTableResponse(table_uri) ==
    LET parsed == ParseTableUri(table_uri)
    IN  [t           |-> "table",
         database    |-> parsed.database,
         cluster     |-> S.optimusdb,
         schema      |-> parsed.schema,
         name        |-> parsed.name,
         key         |-> table_uri,
         description |-> [text |-> S.no_data, highlights |-> <<>>],
         columns     |-> <<>>,
         owners      |-> <<Owner(S.system)>>,
         tags        |-> <<>>,
         badges      |-> <<>>]

\* self._get_table_schema(schema) in get_table: the class defines no attribute of
\* that name (only _get_table_schema_enhanced), so the call raises AttributeError
GetTableSchema(schema) == Raised

\* the records get_table's lookup query yields after normalization
LookupRecords(table_uri, cat, mode) ==
    RecordsOf(ExecuteSql(mode, SelectByName(cat, ParseTableUri(table_uri).name)).value)

\* STEP 3 to STEP 9 of get_table, from the first matching record
TableFromRecord(table_uri, parsed, record, schema_info) ==
    LET name    == Get(record, K.name, JStr(parsed.name))
        descr   == Get(record, K.description,
                       Get(record, K.desc, JStr(S.no_description)))
        owners  == ParseOwnersFromRecord(record)
        badges  == ExtractBadges(record)
    IN  IF owners.t = "raised" \/ badges.t = "raised"
        THEN GetEmptyTableResponse(table_uri)        \* except Exception
        ELSE [t           |-> "table",
              database    |-> parsed.database,
              cluster     |-> S.optimusdb,
              schema      |-> parsed.schema,
              name        |-> name,
              key         |-> table_uri,
              description |-> BuildEnhancedDescription(record, descr),
              columns     |-> BuildColumnsFromRecord(record, schema_info),
              owners      |-> owners.l,
              tags        |-> ParseTagsFromRecord(record),
              badges      |-> badges.l]

\* OptimusDBProxy.get_table
GetTable(table_uri, cat, mode) ==
    LET parsed == ParseTableUri(table_uri)
    IN  IF parsed.name = <<>> THEN GetEmptyTableResponse(table_uri)
        ELSE LET schema_info == GetTableSchema(parsed.schema)
             IN  IF schema_info.t = "raised"
                 THEN GetEmptyTableResponse(table_uri)        \* except Exception
                 ELSE LET records == LookupRecords(table_uri, cat, mode)
                      IN  IF records.t # "list" \/ records.l = <<>>
                          THEN GetEmptyTableResponse(table_uri)
                          ELSE IF records.l[1].t # "obj"
                          THEN GetEmptyTableResponse(table_uri)   \* except Exception
                          ELSE TableFromRecord(table_uri, parsed, records.l[1],
                                               schema_info.l)


\* the record of the end-to-end scenario, and one with an internal field
RecScenario == JObj(<<Field(K.name, JStr(S.orders)),
                      Field(K.metadata_type, JStr(S.sales)),
                      Field(K.tags, JStr(S.ecommerce_orders))>>)
RecInternal == JObj(<<Field(K.internal_id, JNum(7)),
                      Field(K.name, JStr(S.sales)),
                      Field(K.owner, JStr(S.alice))>>)


\* records for the ranker: named "sales", named "sales_report", matching "sales" in
\* the description only, matching nowhere, and with a null description
RecSalesReport == JObj(<<Field(K.name, JStr(S.sales_report))>>)
RecDescOnly    == JObj(<<Field(K.name, JStr(S.orders)), Field(K.description, JStr(S.sales))>>)
RecNoMatch     == JObj(<<Field(K.name, JStr(S.zeta)), Field(K.description, JStr(S.none))>>)
RecNullDesc    == JObj(<<Field(K.name, JStr(S.zeta)), Field(K.description, JNull)>>)

\* the records the datastore is filled from for a table lookup
TablePool == {RecScenario, RecInternal}

\* the records the datastore is filled from for a search
DatasetPool ==
    {RecScenario, RecSales, RecSalesReport, RecDescOnly, RecNoMatch, RecNullDesc}

MaxCatalog == 3

\* the URIs get_table is called with
TableUris ==
    {BuildTableKey(JStr(S.optimusdb), JStr(S.sales), JStr(S.orders)),
     BuildTableKey(JStr(S.optimusdb), JStr(S.default), JStr(S.sales)),
     BuildTableKey(JStr(S.optimusdb), JStr(S.sales), JStr(S.nope)),
     JStr(<<>>), JNull}

\* no request has been served yet: the datastore is filled, then queried
Unqueried == lookup.t = "none" /\ search.t = "none" /\ call.t = "none"

\* a record is stored in the datastore
TableInsert ==
    /\ Unqueried
    /\ Len(catalog) < MaxCatalog
    /\ \E rec \in TablePool : catalog' = Append(catalog, rec)
    /\ UNCHANGED <<backend, normVars, codecVars, lookup, search, call>>

\* a dataset record is stored in the datastore
DatasetInsert ==
    /\ Unqueried
    /\ Len(catalog) < MaxCatalog
    /\ \E rec \in DatasetPool : catalog' = Append(catalog, rec)
    /\ UNCHANGED <<backend, normVars, codecVars, lookup, search, call>>

\* the node starts to answer in another way
BackendTurns ==
    /\ Unqueried
    /\ \E mode \in BackendModes \ {backend} : backend' = mode
    /\ UNCHANGED <<catalog, normVars, codecVars, lookup, search, call>>

GetTableCall ==
    /\ \E table_uri \in TableUris :
          lookup' = [t |-> "lookup", table_uri |-> table_uri,
                     found |-> LookupRecords(table_uri, catalog, backend),
                     out |-> GetTable(table_uri, catalog, backend)]
    /\ UNCHANGED <<storeVars, normVars, codecVars, search, call>>

NextTable ==
    \/ TableInsert
    \/ BackendTurns
    \/ GetTableCall

SpecTable == InitIdle /\ [][NextTable]_vars

-----------------------------------------------------------------------------
(* Properties of the table lookup *)

\* the lookup query of the last get_table call yielded at least one record
LookupFound ==
    /\ lookup.t = "lookup"
    /\ lookup.found.t = "list"
    /\ lookup.found.l # <<>>

\* names of the fields of a record that do not start with the internal prefix
ShownFields(record) ==
    LET shown == SelectSeq(record.f, LAMBDA fld : ~StartsWith(fld.k, S.internal_prefix))
    IN  [i \in 1..Len(shown) |-> shown[i].k]

\* C3: when get_table's lookup query returns at least one record, the returned
\* entity is built from the first record and not the empty-table fallback: one
\* column per field without the internal prefix, in field order, and the owners and
\* tags of that record.
C3_TableFromFirstRecord ==
    (lookup.t = "lookup" /\ LookupFound)
    => LET record == lookup.found.l[1]
       IN  /\ lookup.out.description.text # S.no_data
           /\ [i \in 1..Len(lookup.out.columns) |-> lookup.out.columns[i].name]
                 = ShownFields(record)
           /\ lookup.out.owners = ParseOwnersFromRecord(record).l
           /\ lookup.out.tags = ParseTagsFromRecord(record)

\* C4: when the lookup yields no record, or the backend fails, get_table returns a
\* complete entity with no columns, the one owner "system", no tags, no badges and
\* the placeholder description; no exception reaches the caller.
C4_EmptyTableFallback ==
    (lookup.t = "lookup" /\ ~LookupFound)
    => /\ lookup.out.t = "table"
       /\ lookup.out.columns = <<>>
       /\ Len(lookup.out.owners) = 1
       /\ lookup.out.owners[1].display_name = S.system
       /\ lookup.out.tags = <<>>
       /\ lookup.out.badges = <<>>
       /\ lookup.out.description.text = S.no_data
       /\ lookup.out.key = lookup.table_uri

\* C4 witness: a lookup of a name the filled datastore does not hold came back as
\* the placeholder entity
C4_Witness ==
    /\ lookup.t = "lookup"
    /\ catalog # <<>>
    /\ backend = "ok"
    /\ lookup.table_uri = BuildTableKey(JStr(S.optimusdb), JStr(S.sales), JStr(S.nope))
    /\ ~LookupFound
    /\ lookup.out.name = S.nope
    /\ lookup.out.description.text = S.no_data

-----------------------------------------------------------------------------
(* Dataset discovery and search *)


Digit(n) == <<"0","1","2","3","4","5","6","7","8","9">>[n + 1]

RECURSIVE Digits(_)
Digits(n) == IF n < 10 THEN <<Digit(n)>> ELSE Digits(n \div 10) \o <<Digit(n % 10)>>

\* f"{v}" of a str, None or a natural number
PyStr(v) ==
    CASE v.t = "str"  -> v.s
      [] v.t = "null" -> S.None
      [] v.t = "num"  -> Digits(v.n)

\* the entry discover_datasets builds from one record, or Raised
DiscoverEntry(rec, node) ==
    IF rec.t # "obj" THEN Raised                     \* rec.get raises
    ELSE
    LET schema   == Get(rec, K.metadata_type, JStr(S.default))
        database == Get(rec, K.component, JStr(S.optimusdb))
        name     == Get(rec, K.name, JStr(S.unknown))
        desc     == Get(rec, K.description,
                        JStr(S.discovered \o PyStr(name) \o S.from \o node))
        key      == BuildTableKey(database, schema, name)
        tags     == Or(Get(rec, K.tags, JStr(<<>>)), JStr(<<>>))
        keys     == [i \in 1..Len(rec.f) |-> rec.f[i].k]
    IN  IF key.t = "raised" \/ tags.t # "str" THEN Raised
        ELSE [t            |-> "entry",
              key          |-> key.s,
              name         |-> PyStr(schema) \o <<".">> \o PyStr(name),
              schema       |-> schema,
              cluster      |-> node,
              database     |-> database,
              description  |-> desc,
              column_names |-> IF keys # <<>> THEN keys
                               ELSE <<K.id, K.name, K.description>>,
              tags         |-> Split(tags.s, <<",">>),
              owners       |-> <<Get(rec, K.created_by, JStr(S.system))>>,
              preview      |-> rec]

RECURSIVE EntriesFrom(_, _, _)
\* the loop over a node's records from record i on: it ends at the first record
\* whose entry raises, keeping the entries appended before
EntriesFrom(records, i, node) ==
    IF i > Len(records) THEN <<>>
    ELSE LET entry == DiscoverEntry(records[i], node)
         IN  IF entry.t = "raised" THEN <<>>
             ELSE <<entry>> \o EntriesFrom(records, i + 1, node)

RECURSIVE DiscoverNodesAborting(_, _, _)
\* a loop over the nodes that ends at the first node that fails
DiscoverNodesAborting(nodes, answers, i) ==
    IF i > Len(nodes) THEN <<>>
    ELSE IF answers[i].mode \in {"unreachable", "http_error"} THEN <<>>
    ELSE LET json_resp == ParseOptimusdbResponse(
                 [t |-> "response", ok |-> TRUE,
                  body |-> BackendBody(answers[i].mode, answers[i].records)])
             records == RecordsOf(json_resp)
         IN  (IF records.t # "list" THEN <<>>
              ELSE EntriesFrom(records.l, 1, nodes[i]))
             \o DiscoverNodesAborting(nodes, answers, i + 1)

RECURSIVE DiscoverNodes(_, _, _)
\* "for node in nodes" of discover_datasets, from node i on; node i answers the
\* query in answers[i].mode, with answers[i].records
DiscoverNodes(nodes, answers, i) ==
    IF i > Len(nodes) THEN <<>>
    ELSE (IF answers[i].mode = "unreachable" THEN <<>>      \* ConnectionError, logged
          ELSE IF answers[i].mode = "http_error" THEN <<>>  \* not resp.ok: continue
          ELSE LET json_resp == ParseOptimusdbResponse(
                       [t |-> "response", ok |-> TRUE,
                        body |-> BackendBody(answers[i].mode, answers[i].records)])
                   records == RecordsOf(json_resp)
               IN  IF records.t # "list" THEN <<>>
                   ELSE EntriesFrom(records.l, 1, nodes[i]))
         \o DiscoverNodes(nodes, answers, i + 1)

\* OptimusDBProxy.discover_datasets, over its one node
DiscoverDatasets(cat, mode) ==
    DiscoverNodes(<<S.node>>, <<[mode |-> mode, records |-> cat]>>, 1)

\* _calculate_search_score raises: a field it calls lower() on is no str
ScoreRaises(dataset, query_lower) ==
    /\ query_lower # <<>>
    /\ \/ dataset.schema.t # "str"
       \/ dataset.description.t # "str"
       \/ dataset.database.t # "str"

\* OptimusDBProxy._calculate_search_score, where it does not raise
CalculateSearchScore(dataset, query_lower) ==
    IF query_lower = <<>> THEN 0
    ELSE
    LET name        == Lower(dataset.name)
        schema      == Lower(dataset.schema.s)
        description == Lower(dataset.description.s)
        database    == Lower(dataset.database.s)
        name_score  == IF name = query_lower THEN 100
                       ELSE IF StartsWith(name, query_lower) THEN 80
                       ELSE IF Contains(name, query_lower) THEN 50
                       ELSE 0
        schema_score == IF schema = query_lower \/ Contains(schema, query_lower)
                        THEN 40 ELSE 0
        tag_score   == IF \E i \in 1..Len(dataset.tags) :
                              \/ query_lower = Lower(dataset.tags[i])
                              \/ Contains(Lower(dataset.tags[i]), query_lower)
                       THEN 30 ELSE 0
        desc_score  == IF Contains(description, query_lower) THEN 20 ELSE 0
        col_score   == IF \E i \in 1..Len(dataset.column_names) :
                              Contains(Lower(dataset.column_names[i]), query_lower)
                       THEN 15 ELSE 0
        db_score    == IF Contains(database, query_lower) THEN 10 ELSE 0
    IN  name_score + schema_score + tag_score + desc_score + col_score + db_score

RECURSIVE ScoredFrom(_, _, _)
\* "Filter and score results": scored_results, each dataset named by its position
\* in all_datasets
ScoredFrom(all_datasets, i, query_lower) ==
    IF i > Len(all_datasets) THEN <<>>
    ELSE LET score == CalculateSearchScore(all_datasets[i], query_lower)
         IN  (IF score > 0 THEN <<[score |-> score, idx |-> i]>> ELSE <<>>)
             \o ScoredFrom(all_datasets, i + 1, query_lower)

RECURSIVE InsertBeforeEqual(_, _)
\* InsertByScore with the test written >: an item goes before its equals
InsertBeforeEqual(sorted, item) ==
    IF sorted = <<>> THEN <<item>>
    ELSE IF Head(sorted).score > item.score
         THEN <<Head(sorted)>> \o InsertBeforeEqual(Tail(sorted), item)
         ELSE <<item>> \o sorted

RECURSIVE InsertByScore(_, _)
\* one step of list.sort(key=score, reverse=True), a stable sort: the item goes
\* behind every item of a score at least its own
InsertByScore(sorted, item) ==
    IF sorted = <<>> THEN <<item>>
    ELSE IF Head(sorted).score >= item.score
         THEN <<Head(sorted)>> \o InsertByScore(Tail(sorted), item)
         ELSE <<item>> \o sorted

RECURSIVE SortByScore(_, _)
\* scored_results.sort(key=lambda x: x[0], reverse=True): items inserted in order
SortByScore(sorted, items) ==
    IF items = <<>> THEN sorted
    ELSE SortByScore(InsertByScore(sorted, Head(items)), Tail(items))

page_size == 10

\* seq[start:end] of Python, start and end 0-based and possibly negative
PySlice(seq, start, end) ==
    LET n == Len(seq)
        clip(i) == IF i < 0 THEN (IF i + n < 0 THEN 0 ELSE i + n)
                   ELSE (IF i > n THEN n ELSE i)
    IN  SubSeq(seq, clip(start) + 1, clip(end))

\* PageOf with pages counted from 1
PageOfOneBased(all_results, page_index, per_page) ==
    PySlice(all_results, (page_index - 1) * per_page,
            (page_index - 1) * per_page + per_page)

\* "Pagination": start_idx = page_index * page_size; end_idx = start_idx + page_size;
\* all_results[start_idx:end_idx]
PageOf(all_results, page_index, per_page) ==
    PySlice(all_results, page_index * per_page, page_index * per_page + per_page)

\* OptimusDBProxy.get_table_by_search: its reply, with the handler's locals
\* all_datasets, query_lower and the sorted matches (positions in all_datasets)
GetTableBySearch(query_term, page_index, cat, mode) ==
    LET all_datasets == DiscoverDatasets(cat, mode)
        failed == [t |-> "search", query_term |-> query_term, page_index |-> page_index,
                   all_datasets |-> all_datasets, raised |-> TRUE,
                   query_lower |-> <<>>, matching |-> <<>>,
                   out |-> [total_results |-> 0, results |-> <<>>,
                            page_index |-> page_index]]
    IN  IF query_term.t # "str" THEN failed          \* .lower() raises
        ELSE
        LET query_lower == Strip(Lower(query_term.s))
        IN  IF \E i \in 1..Len(all_datasets) : ScoreRaises(all_datasets[i], query_lower)
            THEN [failed EXCEPT !.query_lower = query_lower]
            ELSE
            LET scored   == SortByScore(<<>>, ScoredFrom(all_datasets, 1, query_lower))
                matching == [i \in 1..Len(scored) |-> scored[i].idx]
                page     == PageOf(matching, page_index, page_size)
            IN  [t |-> "search", query_term |-> query_term, page_index |-> page_index,
                 all_datasets |-> all_datasets, raised |-> FALSE,
                 query_lower |-> query_lower, matching |-> matching,
                 out |-> [total_results |-> Len(matching),
                          results |-> [i \in 1..Len(page) |-> all_datasets[page[i]]],
                          page_index |-> page_index]]


\* the queries of a search
Queries == {JStr(S.sales), JStr(S.Sales_padded), JStr(S.orders), JStr(<<>>), JStr(<<" ">>)}

\* the pages asked of a datastore of a few records: the first, and one behind it
SearchPages == {0, 1}

\* a search request; the handler keeps nothing between requests, so one request
\* on each datastore shows them all
SearchCall ==
    /\ search.t = "none"
    /\ \E query_term \in Queries, page_index \in SearchPages :
          search' = GetTableBySearch(query_term, page_index, catalog, backend)
    /\ UNCHANGED <<storeVars, normVars, codecVars, lookup, call>>

NextSearch ==
    \/ DatasetInsert
    \/ BackendTurns
    \/ SearchCall

SpecSearch == InitIdle /\ [][NextSearch]_vars

\* the score the ranker gives the i-th discovered dataset for the query of the
\* last search
ScoreOf(i) == CalculateSearchScore(search.all_datasets[i], search.query_lower)

\* C5: the full result sequence of a search, before pagination, is ordered by
\* non-increasing score, and two datasets of equal score stand in the order in
\* which discovery produced them.
C5_RankedStable ==
    (search.t = "search" /\ ~search.raised)
    => LET m == search.matching
       IN  \A i, j \in 1..Len(m) :
              i < j => /\ ScoreOf(m[i]) >= ScoreOf(m[j])
                       /\ ScoreOf(m[i]) = ScoreOf(m[j]) => m[i] < m[j]

\* a search has ranked three datasets: the first discovered has the lowest score
\* and comes last, the other two tie and keep their order
C5_Witness ==
    /\ search.t = "search"
    /\ ~search.raised
    /\ search.matching = <<2, 3, 1>>
    /\ ScoreOf(2) = ScoreOf(3)
    /\ ScoreOf(3) > ScoreOf(1)

\* C6: a search returns a dataset if and only if its score for the query is greater
\* than 0, total_results is the number of such datasets, and an empty or
\* whitespace-only query returns nothing.
C6_ReturnedIffPositive ==
    (search.t = "search" /\ search.query_term.t = "str" /\ search.page_index = 0)
    => LET all == search.all_datasets
           positive == {i \in 1..Len(all) :
                           /\ ~ScoreRaises(all[i], Strip(Lower(search.query_term.s)))
                           /\ CalculateSearchScore(all[i],
                                  Strip(Lower(search.query_term.s))) > 0}
           returned == {i \in 1..Len(all) :
                           \E k \in 1..Len(search.out.results) :
                              search.out.results[k] = all[i]}
       IN  /\ returned = positive
           /\ search.out.total_results = Cardinality(positive)
           /\ Strip(search.query_term.s) = <<>> => search.out.results = <<>>

\* the dataset discovery makes of a record named `name` and nothing else
NamedOnly(dataset, name) == dataset.preview = JObj(<<Field(K.name, JStr(name))>>)

\* the only signal of the dataset for the query is the query in its description
DescriptionOnly(dataset, query_lower) ==
    /\ ~ScoreRaises(dataset, query_lower)
    /\ Contains(Lower(dataset.description.s), query_lower)
    /\ CalculateSearchScore(dataset, query_lower) = 20

\* C7: for the query "sales", a discovered record named exactly "sales" scores
\* strictly higher than one named "sales_report", which scores strictly higher than
\* one whose only match is "sales" in its description.
C7_SalesMonotone ==
    (search.t = "search" /\ search.query_lower = S.sales)
    => LET all == search.all_datasets
       IN  \A i, j \in 1..Len(all) :
              /\ (NamedOnly(all[i], S.sales) /\ NamedOnly(all[j], S.sales_report))
                 => ScoreOf(i) > ScoreOf(j)
              /\ (NamedOnly(all[i], S.sales_report) /\ DescriptionOnly(all[j], S.sales))
                 => ScoreOf(i) > ScoreOf(j)


-----------------------------------------------------------------------------
(* Table search of the search service *)

\* the characters of the names in use, in code point order
CodePoints ==
    <<" ", "%", "*", ".", "/", "0", "1", "2", "3", "4", "5", "6", "7", "8", "9", ":",
      "A", "D", "S", "X", "_",
      "a", "b", "c", "d", "e", "f", "g", "h", "i", "j", "k", "l", "m",
      "n", "o", "p", "q", "r", "s", "t", "u", "v", "w", "x", "y", "z">>

Ord(c) == CHOOSE i \in 1..Len(CodePoints) : CodePoints[i] = c

RECURSIVE StrLess(_, _)
\* a < b of two strings
StrLess(a, b) ==
    IF b = <<>> THEN FALSE
    ELSE IF a = <<>> THEN TRUE
    ELSE IF Head(a) = Head(b) THEN StrLess(Tail(a), Tail(b))
    ELSE Ord(Head(a)) < Ord(Head(b))

\* the name a record is ordered by, a record without a name first
NameOrder(rec) ==
    LET name == Get(rec, K.name, JNull)
    IN  IF name.t = "str" THEN name.s ELSE <<>>

RECURSIVE InsertByName(_, _)
InsertByName(sorted, rec) ==
    IF sorted = <<>> THEN <<rec>>
    ELSE IF StrLess(NameOrder(rec), NameOrder(Head(sorted)))
         THEN <<rec>> \o sorted
         ELSE <<Head(sorted)>> \o InsertByName(Tail(sorted), rec)

RECURSIVE OrderByName(_, _)
OrderByName(sorted, records) ==
    IF records = <<>> THEN sorted
    ELSE OrderByName(InsertByName(sorted, Head(records)), Tail(records))

sql_limit == 100

\* what the datastore holds for "SELECT * FROM datacatalog ORDER BY name LIMIT 100;"
SelectAllOrderByName(cat) == PySlice(OrderByName(<<>>, cat), 0, sql_limit)

\* OptimusDBSearchProxy._execute_sql, for a query that yields `records`
SearchExecuteSql(mode, records) ==
    IF mode = "unreachable" THEN Dispatched(1, FALSE, EmptyReply)   \* requests.post raises
    ELSE IF mode = "http_error" THEN Dispatched(1, FALSE, EmptyReply) \* not resp.ok
    ELSE Dispatched(1, TRUE, SearchParseOptimusdbResponse(
             [t |-> "response", ok |-> TRUE, body |-> BackendBody(mode, records)]))

\* the Table fetch_table_search_results builds from one record, or Raised
SearchTableOf(rec) ==
    IF rec.t # "obj" THEN Raised                     \* rec.get raises
    ELSE
    LET name     == Get(rec, K.name, JStr(S.unknown))
        schema   == Get(rec, K.metadata_type, JStr(S.default))
        database == Get(rec, K.component, JStr(S.optimusdb))
        tags_str == Get(rec, K.tags, JStr(<<>>))
        key      == SearchBuildTableKey(database, schema, name)
    IN  IF Truthy(tags_str) /\ tags_str.t # "str" THEN Raised    \* .split raises
        ELSE IF key.t = "raised" THEN Raised
        ELSE [t           |-> "table",
              name        |-> name,
              key         |-> key.s,
              description |-> Get(rec, K.description, JStr(<<>>)),
              cluster     |-> S.default,
              database    |-> database,
              schema      |-> schema,
              tags        |-> IF Truthy(tags_str) THEN SplitCommaStripped(tags_str.s)
                              ELSE <<>>]

results_per_page == 10


\* the wildcard queries: they select every record
Wildcards == {JStr(S.star), JStr(<<>>), JNull}

\* OptimusDBSearchProxy.fetch_table_search_results for a wildcard query: its
\* reply, with the handler's local `tables`
FetchTableSearchResults(query_term, page_index, cat, mode) ==
    LET result == SearchExecuteSql(mode, SelectAllOrderByName(cat)).value
        records == RecordsOf(result)
        failed == [t |-> "fetch", query_term |-> query_term, page_index |-> page_index,
                   raised |-> TRUE, tables |-> <<>>,
                   out |-> [total_results |-> 0, results |-> <<>>]]
    IN  IF records.t # "list" THEN failed
        ELSE
        LET tables == [i \in 1..Len(records.l) |-> SearchTableOf(records.l[i])]
        IN  IF \E i \in 1..Len(tables) : tables[i].t = "raised" THEN failed
            ELSE [t |-> "fetch", query_term |-> query_term, page_index |-> page_index,
                  raised |-> FALSE, tables |-> tables,
                  out |-> [total_results |-> Len(tables),
                           results |-> PageOf(tables, page_index, results_per_page)]]

MaxPageCatalog == 11

MaxPage == 2

\* the k-th record of a datastore of more than one page: {"name": "sales<k>"} or,
\* of the scenario's kind, {"name": "orders<k>", "metadata_type": "sales"}
PageRecord(k, scenario) ==
    IF scenario
    THEN JObj(<<Field(K.name, JStr(S.orders \o Digits(k))),
                Field(K.metadata_type, JStr(S.sales))>>)
    ELSE JObj(<<Field(K.name, JStr(S.sales \o Digits(k)))>>)

\* where a record of the scenario's kind may stand: among the first records, and
\* where the first page ends and the second begins
ScenarioAt == {2, 10, 11}

\* a datastore of more than one page is filled, each record of another name
PageInsert ==
    /\ Unqueried
    /\ Len(catalog) < MaxPageCatalog
    /\ LET k == Len(catalog) + 1
       IN  \/ catalog' = Append(catalog, PageRecord(k, FALSE))
           \/ /\ k \in ScenarioAt
              /\ catalog' = Append(catalog, PageRecord(k, TRUE))
    /\ UNCHANGED <<backend, normVars, codecVars, lookup, search, call>>

\* a page of a search for "sales" is asked of the metadata service
SearchPageCall ==
    /\ search.t = "none"
    /\ \E page_index \in 0..MaxPage :
          search' = GetTableBySearch(JStr(S.sales), page_index, catalog, backend)
    /\ UNCHANGED <<storeVars, normVars, codecVars, lookup, call>>

\* a page of all tables is asked of the search service
FetchPageCall ==
    /\ search.t = "none"
    /\ \E query_term \in Wildcards, page_index \in 0..MaxPage :
          search' = FetchTableSearchResults(query_term, page_index, catalog, backend)
    /\ UNCHANGED <<storeVars, normVars, codecVars, lookup, call>>

NextPage ==
    \/ PageInsert
    \/ SearchPageCall
    \/ FetchPageCall

SpecPage == InitIdle /\ [][NextPage]_vars

\* the sorted, filtered sequence the last request paginated
FullSequence ==
    IF search.t = "search"
    THEN [i \in 1..Len(search.matching) |-> search.all_datasets[search.matching[i]]]
    ELSE search.tables

\* the same request for another page
PageAgain(page_index) ==
    IF search.t = "search"
    THEN GetTableBySearch(search.query_term, page_index, catalog, backend).out
    ELSE FetchTableSearchResults(search.query_term, page_index, catalog, backend).out

RECURSIVE Concatenated(_, _)
\* pages[1], ..., pages[k] one after the other
Concatenated(pages, k) ==
    IF k = 0 THEN <<>> ELSE Concatenated(pages, k - 1) \o pages[k].results

\* C8: the page a search returns holds the elements at positions
\* [page_index*10, page_index*10+10) of the sorted, filtered sequence; a page behind
\* the last element is empty, total_results is the same on every page, and pages
\* 0, 1, 2, ... one after the other are the full sequence.
C8_Pagination ==
    (search.t \in {"search", "fetch"} /\ ~search.raised)
    => LET full == FullSequence
           n    == Len(full)
           from == search.page_index * 10
           size == IF from >= n THEN 0 ELSE IF from + 10 <= n THEN 10 ELSE n - from
       IN  /\ Len(search.out.results) = size
           /\ \A i \in 1..size : search.out.results[i] = full[from + i]
           /\ search.out.total_results = n
           /\ search.page_index = 0
              => LET pages == [k \in 1..(MaxPage + 1) |-> PageAgain(k - 1)]
                 IN  /\ \A k \in 1..(MaxPage + 1) : pages[k].total_results = n
                     /\ (MaxPage + 1) * 10 >= n
                        => Concatenated(pages, MaxPage + 1) = full

\* the second page of eleven results holds the one result left, the eleventh of a
\* sequence that the ranker has reordered
C8_Witness ==
    /\ search.t = "search"
    /\ search.page_index = 1
    /\ search.out.total_results = 11
    /\ Len(search.out.results) = 1
    /\ search.matching[1] # 1
    /\ search.out.results[1] = search.all_datasets[search.matching[11]]

-----------------------------------------------------------------------------
(* The entity mapper on its own: owners and columns of any record *)

\* what an owner-like field may hold: nothing, one name, one name in blanks, names
\* between commas, commas only, a number, a JSON array of names
OwnerValues ==
    {JStr(<<>>), JStr(S.alice), JStr(<<" ","b","o","b"," ">>), JStr(S.alice_bob),
     JStr(<<",">>), JNum(7), JList(<<JStr(S.alice)>>)}

\* a field of the record under `key`: absent, or holding one of `values`
FieldChoices(key, values) == {<<>>} \cup {<<Field(key, v)>> : v \in values}

\* records with any combination of three owner-like fields
OwnerRecords ==
    {JObj(a \o b \o c) : a \in FieldChoices(K.created_by, OwnerValues),
                         b \in FieldChoices(K.owners, OwnerValues),
                         c \in FieldChoices(K.user, OwnerValues)}

\* _parse_owners_from_record is called with a record; the mapper keeps nothing
\* between calls, so one call in a behaviour shows them all
OwnersCall ==
    /\ call.t = "none"
    /\ \E record \in OwnerRecords :
          call' = [t |-> "owners", record |-> record,
                   out |-> ParseOwnersFromRecord(record)]
    /\ UNCHANGED <<storeVars, normVars, codecVars, lookup, search>>

\* the value is a string with a name in it
YieldsOwner(value) ==
    /\ value.t = "str"
    /\ \E i \in 1..Len(value.s) : ~IsSpace(value.s[i]) /\ value.s[i] # ","

\* C11: for every record the owner derivation returns a non-empty list; when no
\* owner-like field yields an owner, the list is the one owner "system".
C11_OwnersNonEmpty ==
    (call.t = "owners")
    => /\ call.out.t = "owners"
       /\ call.out.l # <<>>
       /\ (\A i \in 1..Len(call.record.f) : ~YieldsOwner(call.record.f[i].v))
          => /\ Len(call.out.l) = 1
             /\ call.out.l[1].display_name = S.system

\* the fields a record for the column builder is made of: shown ones, one with the
\* internal prefix, one that starts with "__"
ColumnFields ==
    {Field(K.name, JStr(S.sales)),
     Field(K.internal_id, JNum(7)),
     Field(<<"_","_","v">>, JNum(1)),
     Field(K.tags, JStr(S.ecommerce_orders)),
     Field(<<"c","r","e","a","t","e","d","_","a","t">>,
           JStr(<<"2","0","2","4","-","0","1","-","0","1","T","0","0",":","0","0">>))}

MaxFields == 3

\* the records of at most MaxFields fields, each key once, in any order
ColumnRecords ==
    {JObj(f) : f \in UNION {{g \in [1..n -> ColumnFields] :
                                \A i, j \in 1..n : i # j => g[i].k # g[j].k}
                            : n \in 0..MaxFields}}

\* what schema discovery found: nothing, or the types of two of the fields
SchemaInfos ==
    {<<>>,
     <<JObj(<<Field(K.name, JStr(K.name)), Field(K.type, JStr(<<"T","E","X","T">>))>>),
       JObj(<<Field(K.name, JStr(K.tags)), Field(K.type, JStr(<<"j","s","o","n">>))>>)>>}

\* _build_columns_from_record is called with a record
ColumnsCall ==
    /\ call.t = "none"
    /\ \E record \in ColumnRecords, schema_info \in SchemaInfos :
          call' = [t |-> "columns", record |-> record, schema_info |-> schema_info,
                   out |-> BuildColumnsFromRecord(record, schema_info)]
    /\ UNCHANGED <<storeVars, normVars, codecVars, lookup, search>>

\* _build_columns_from_record_enhanced is called with a record
ColumnsEnhancedCall ==
    /\ call.t = "none"
    /\ \E record \in ColumnRecords, schema_info \in SchemaInfos :
          call' = [t |-> "columns_enhanced", record |-> record,
                   schema_info |-> schema_info,
                   out |-> BuildColumnsFromRecordEnhanced(record, schema_info)]
    /\ UNCHANGED <<storeVars, normVars, codecVars, lookup, search>>

\* the "key" of the document BackgroundIndexer._transform_to_document builds
TransformToDocumentKey(record) ==
    LET schema   == Get(record, K.metadata_type, JStr(S.default))
        database == Get(record, K.component, JStr(S.optimusdb))
        name     == Get(record, K.name, JStr(S.unknown))
    IN  IF schema.t # "str" \/ database.t # "str" \/ name.t # "str"
        THEN Raised                                    \* .strip raises
        ELSE JStr(FormatKey(Strip(database.s),
                            Replace(Strip(schema.s), <<" ">>, <<"_">>),
                            Replace(Strip(name.s), <<" ">>, <<"_">>)))

\* records with any combination of component, metadata_type and name: absent,
\* empty, plain, with a space inside, with spaces around
KeyRecords ==
    LET values == {JStr(<<>>), JStr(<<"d","b">>), JStr(<<"a"," ","b">>),
                   JStr(<<" ","d","b"," ">>)}
    IN  {JObj(a \o b \o c) : a \in FieldChoices(K.component, values),
                             b \in FieldChoices(K.metadata_type, values),
                             c \in FieldChoices(K.name, values)}

\* the metadata proxy, the search proxy and the indexer each serialise the key
\* of one record
KeysCall ==
    /\ call.t = "none"
    /\ \E record \in KeyRecords :
          call' = [t |-> "keys", record |-> record,
                   metadata |-> BuildTableKey(
                                    Get(record, K.component, JStr(S.optimusdb)),
                                    Get(record, K.metadata_type, JStr(S.default)),
                                    Get(record, K.name, JStr(S.unknown))),
                   search |-> JStr(SearchTableOf(record).key),
                   indexer |-> TransformToDocumentKey(record)]
    /\ UNCHANGED <<storeVars, normVars, codecVars, lookup, search>>

\* _calculate_search_score is called with a discovered dataset and a lower-cased
\* query that is not empty
ScoreCall ==
    /\ call.t = "none"
    /\ \E rec \in DatasetPool,
          query_lower \in {S.sales, S.orders, S.default, S.optimusdb, K.name, S.zeta} :
          LET dataset == DiscoverEntry(rec, S.node)
          IN  call' = [t |-> "score", dataset |-> dataset, query_lower |-> query_lower,
                       raised |-> ScoreRaises(dataset, query_lower),
                       score |-> IF ScoreRaises(dataset, query_lower) THEN 0
                                 ELSE CalculateSearchScore(dataset, query_lower)]
    /\ UNCHANGED <<storeVars, normVars, codecVars, lookup, search>>

NextMapper ==
    \/ OwnersCall
    \/ ColumnsCall
    \/ ColumnsEnhancedCall
    \/ KeysCall
    \/ ScoreCall

SpecMapper == InitIdle /\ [][NextMapper]_vars

\* the points of the signals that hold for a dataset and a query: one of the three
\* name signals at most, and each of the other five once
SignalPoints(dataset, q) ==
    LET in(text) == text.t = "str" /\ Contains(Lower(text.s), q)
        name     == Lower(dataset.name)
    IN  (CASE name = q -> 100
           [] name # q /\ StartsWith(name, q) -> 80
           [] ~StartsWith(name, q) /\ Contains(name, q) -> 50
           [] OTHER -> 0)
        + (IF in(dataset.schema) THEN 40 ELSE 0)
        + (IF \E i \in 1..Len(dataset.tags) : in(JStr(dataset.tags[i]))
           THEN 30 ELSE 0)
        + (IF in(dataset.description) THEN 20 ELSE 0)
        + (IF \E i \in 1..Len(dataset.column_names) :
                 in(JStr(dataset.column_names[i]))
           THEN 15 ELSE 0)
        + (IF in(dataset.database) THEN 10 ELSE 0)

\* C22: for every dataset and every lower-cased query that is not empty the ranker
\* returns a score, the score is the sum of the points of the signals that hold,
\* and it lies between 0 and 215.
C22_ScoreIsSumOfSignals ==
    (call.t = "score")
    => /\ ~call.raised
       /\ call.score = SignalPoints(call.dataset, call.query_lower)
       /\ call.score \in 0..215

\* C18: for every record the metadata proxy, the search proxy and the indexer
\* serialise the same key, and for a record that holds all three fields it is
\* {database}://default.{schema}/{name} with the spaces of schema and name replaced
\* by underscores.
C18_SameKey ==
    (call.t = "keys")
    => /\ call.metadata = call.search
       /\ call.search = call.indexer
       /\ (\A key \in {K.component, K.metadata_type, K.name} :
              HasKey(call.record, key))
          => call.metadata =
                JStr(FormatKey(Get(call.record, K.component, JNull).s,
                               Replace(Get(call.record, K.metadata_type, JNull).s,
                                       <<" ">>, <<"_">>),
                               Replace(Get(call.record, K.name, JNull).s,
                                       <<" ">>, <<"_">>)))

\* the columns are those of `shown`, in order, numbered from 0 without a gap
DenseColumnsOf(columns, shown) ==
    /\ Len(columns) = Len(shown)
    /\ \A i \in 1..Len(shown) :
          /\ columns[i].name = shown[i].k
          /\ columns[i].sort_order = i - 1

C25_ColumnTypes ==
    (call.t = "columns")
    => \A i \in 1..Len(call.out) : \A j \in 1..Len(call.record.f) :
          call.record.f[j].k = call.out[i].name
          => call.out[i].col_type
                = IF InSchemaMap(call.schema_info, call.record.f[j].k)
                  THEN NormalizeColumnType(
                           SchemaMapGet(call.schema_info, call.record.f[j].k))
                  ELSE InferColumnType(call.record.f[j].v)

-----------------------------------------------------------------------------
(* The dispatchers on their own *)

\* the metadata proxy's _execute_sql is called for every record of the datastore
ExecuteSqlCall ==
    /\ call.t = "none"
    /\ call' = [t |-> "execute_sql", service |-> "metadata", mode |-> backend,
                stored |-> catalog] @@ ExecuteSql(backend, catalog)
    /\ UNCHANGED <<storeVars, normVars, codecVars, lookup, search>>

\* the search service's _execute_sql is called for every record of the datastore
SearchExecuteSqlCall ==
    /\ call.t = "none"
    /\ call' = [t |-> "execute_sql", service |-> "search", mode |-> backend,
                stored |-> catalog] @@ SearchExecuteSql(backend, catalog)
    /\ UNCHANGED <<storeVars, normVars, codecVars, lookup, search>>

\* the read operations of the facade that post their query themselves, and the
\* search service's search
FacadeReads ==
    {"get_badges", "get_user", "get_table_by_user_relation",
     "get_dashboard_by_user_relation", "search"}

\* get_badges(), get_user(id="alice"), get_table_by_user_relation,
\* get_dashboard_by_user_relation and search(query_term="*", page_index=0,
\* resource_types=[TABLE]) against a node that answers every query with `cat`
FacadeRead(op, cat, mode) ==
    LET result  == ParseOptimusdbResponse(
                       [t |-> "response", ok |-> mode # "http_error",
                        body |-> BackendBody(mode, cat)])
        records == RecordsOf(result)
        \* session.post raises, or the loop meets a value it cannot read
        raises  == \/ mode = "unreachable"
                   \/ records.t # "list"
                   \/ \E i \in 1..Len(records.l) : records.l[i].t # "obj"
        empty   == JStr(<<>>)
        default_user ==
            [email |-> JStr(S.alice \o S.company), user_id |-> JStr(S.alice),
             display_name |-> JStr(S.alice), profile_url |-> empty,
             is_active |-> TRUE, github_username |-> empty, team_name |-> empty,
             slack_id |-> empty, employee_type |-> empty]
    IN
    CASE op = "get_badges" ->
           IF raises THEN <<>>
           ELSE LET named == SelectSeq(records.l,
                                 LAMBDA rec : Truthy(Get(rec, <<"b","a","d","g","e">>,
                                                         empty)))
                IN  [i \in 1..Len(named) |->
                        [badge_name |-> Get(named[i], <<"b","a","d","g","e">>, empty),
                         category |-> S.default]]
      [] op = "get_user" ->
           IF raises \/ records.l = <<>> THEN default_user
           ELSE LET user_data == records.l[1]
                IN  [email |-> Get(user_data, <<"e","m","a","i","l">>,
                                   default_user.email),
                     user_id |-> Get(user_data, <<"u","s","e","r","_","i","d">>,
                                     default_user.user_id),
                     display_name |-> Get(user_data,
                         <<"d","i","s","p","l","a","y","_","n","a","m","e">>,
                         default_user.display_name),
                     profile_url |-> Get(user_data,
                         <<"p","r","o","f","i","l","e","_","u","r","l">>, empty),
                     is_active |-> Get(user_data,
                         <<"i","s","_","a","c","t","i","v","e">>, TRUE),
                     github_username |-> Get(user_data,
                         <<"g","i","t","h","u","b","_","u","s","e","r","n","a","m","e">>,
                         empty),
                     team_name |-> Get(user_data,
                         <<"t","e","a","m","_","n","a","m","e">>, empty),
                     slack_id |-> Get(user_data, <<"s","l","a","c","k","_","i","d">>,
                                      empty),
                     employee_type |-> Get(user_data,
                         <<"e","m","p","l","o","y","e","e","_","t","y","p","e">>, empty)]
      [] op = "get_table_by_user_relation" ->
           IF raises THEN [table |-> <<>>, msg |-> "str(e)", status_code |-> 500]
           ELSE [table |->
                   [i \in 1..Len(records.l) |->
                      LET rec      == records.l[i]
                          schema   == Get(rec, K.metadata_type, JStr(S.default))
                          database == Get(rec, K.component, JStr(S.optimusdb))
                          name     == Get(rec, K.name, JStr(S.unknown))
                      IN  [key |-> BuildTableKey(database, schema, name),
                           name |-> name, schema |-> schema, database |-> database,
                           description |-> Get(rec, K.description, empty)]],
                 msg |-> "Success", status_code |-> 200]
      [] op = "get_dashboard_by_user_relation" ->
           IF raises THEN [dashboard |-> <<>>, msg |-> "str(e)", status_code |-> 500]
           ELSE [dashboard |->
                   [i \in 1..Len(records.l) |->
                      LET dash == records.l[i]
                      IN  [uri |-> Get(dash,
                               <<"d","a","s","h","b","o","a","r","d","_","i","d">>, empty),
                           name |-> Get(dash, K.name, empty),
                           url |-> Get(dash, <<"u","r","l">>, empty),
                           description |-> Get(dash, K.description, empty),
                           group_name |-> Get(dash,
                               <<"g","r","o","u","p","_","n","a","m","e">>, empty)]],
                 msg |-> "Success", status_code |-> 200]
      [] op = "search" ->
           [msg |-> "Success", page_index |-> 0,
            results |-> [table |-> FetchTableSearchResults(<<"*">>, 0, cat, mode).out],
            status_code |-> 200]

\* a read operation of the facade is called
FacadeReadCall ==
    /\ call.t = "none"
    /\ \E op \in FacadeReads :
          call' = [t |-> "read", op |-> op, mode |-> backend,
                   out |-> FacadeRead(op, catalog, backend)]
    /\ UNCHANGED <<storeVars, normVars, codecVars, lookup, search>>

\* one direction of get_lineage: the entities read from the lineage field
LineageEntities(field_str) ==
    LET entity(item) ==
            [key    |-> IF item.t = "obj"
                        THEN Get(item, <<"k","e","y">>, JStr(<<>>)) ELSE item,
             level  |-> IF item.t = "obj"
                        THEN Get(item, <<"l","e","v","e","l">>, JNum(1)) ELSE JNum(1),
             source |-> S.optimusdb,
             badges |-> <<>>]
    IN  IF ~Truthy(field_str) THEN <<>>
        ELSE IF field_str.t # "wrapped" THEN <<>>      \* json.loads raises
        ELSE IF JsonLoadsRaises(field_str.text) THEN <<>>
        ELSE LET data == JsonLoads(field_str.text)
             IN  CASE data.t = "list" -> [i \in 1..Len(data.l) |-> entity(data.l[i])]
                   \* iterating a dict yields its keys
                   [] data.t = "obj"  -> [i \in 1..Len(data.f) |->
                                             entity(JStr(data.f[i].k))]
                   \* iterating a str yields its characters
                   [] data.t = "str"  -> [i \in 1..Len(data.s) |->
                                             entity(JStr(<<data.s[i]>>))]
                   [] OTHER           -> <<>>          \* not iterable

\* OptimusDBProxy.get_lineage, against a node that answers the query with `rows`
GetLineage(id, direction, rows, mode) ==
    LET records == RecordsOf(ExecuteSql(mode, rows).value)
        nothing == [upstream_entities |-> <<>>, downstream_entities |-> <<>>,
                    direction |-> direction, key |-> id]
    IN  IF records.t # "list" THEN nothing             \* except Exception
        ELSE IF records.l = <<>> THEN nothing
        ELSE IF records.l[1].t # "obj" THEN nothing    \* except Exception
        ELSE [upstream_entities |->
                 IF direction \in {"upstream", "both"}
                 THEN LineageEntities(Get(records.l[1],
                          <<"l","i","n","e","a","g","e","_","u","p","s","t","r","e","a","m">>,
                          JStr(<<>>)))
                 ELSE <<>>,
              downstream_entities |->
                 IF direction \in {"downstream", "both"}
                 THEN LineageEntities(Get(records.l[1],
                          <<"l","i","n","e","a","g","e","_","d","o","w","n","s","t","r","e",
                            "a","m">>, JStr(<<>>)))
                 ELSE <<>>,
              direction |-> direction, key |-> id]

\* what a lineage column may hold: nothing, text that is no JSON, the JSON text of
\* a list of entities, of an object, of a number, or a list that is no text
LineageValues ==
    {JStr(<<>>), JStr(S.boom),
     JWrapped(JText(0, JList(<<JObj(<<Field(<<"k","e","y">>, JStr(S.sales)),
                                     Field(<<"l","e","v","e","l">>, JNum(2))>>),
                               JObj(<<Field(<<"k","e","y">>, JStr(S.orders))>>),
                               JStr(S.zeta)>>))),
     JWrapped(JText(0, JObj(<<Field(<<"k","e","y">>, JStr(S.sales))>>))),
     JWrapped(JText(0, JNum(5))),
     JList(<<JStr(S.sales)>>)}

\* get_lineage is called for a resource whose row holds the two lineage columns
LineageCall ==
    /\ call.t = "none"
    /\ \E direction \in {"upstream", "downstream", "both"},
          up \in LineageValues, down \in LineageValues :
          call' = [t |-> "lineage", up |-> up, down |-> down, mode |-> backend,
                   out |-> GetLineage(BuildTableKey(JStr(S.optimusdb), JStr(S.sales),
                                            JStr(S.orders)), direction,
                               <<JObj(<<Field(<<"l","i","n","e","a","g","e","_","u","p","s",
                                               "t","r","e","a","m">>, up),
                                        Field(<<"l","i","n","e","a","g","e","_","d","o","w",
                                               "n","s","t","r","e","a","m">>, down)>>)>>,
                               backend)]
    /\ UNCHANGED <<storeVars, normVars, codecVars, lookup, search>>

\* discover_datasets with a second node in its list: the first node holds the
\* datastore, the second answers in a way of its own
DiscoverCall ==
    /\ call.t = "none"
    /\ \E mode \in BackendModes, records \in {<<>>, <<RecSales>>, <<JNull, RecSales>>} :
          LET nodes   == <<S.node, S.optimusdb \o <<"2">>>>
              answers == <<[mode |-> backend, records |-> catalog],
                           [mode |-> mode, records |-> records]>>
          IN  call' = [t |-> "discover", nodes |-> nodes, answers |-> answers,
                       out |-> DiscoverNodes(nodes, answers, 1)]
    /\ UNCHANGED <<storeVars, normVars, codecVars, lookup, search>>

\* the introspection queries of _get_table_schema_enhanced in the order of its
\* list (PRAGMA table_info, DESCRIBE, information_schema.columns), then its sample
\* query
queries == <<"pragma", "describe", "information_schema", "sample">>

RECURSIVE SchemaQueries(_, _)
\* "for query in queries" from query i on: the queries posted and the records
\* returned from inside the loop; answers[i] is the node's answer to query i. The
\* status of a reply is not looked at, and a post that raises ends the loop.
SchemaQueries(answers, i) ==
    IF i > 3 THEN [posted |-> <<>>, found |-> FALSE, records |-> JList(<<>>)]
    ELSE IF answers[i].mode = "unreachable"            \* except Exception
    THEN [posted |-> <<queries[i]>>, found |-> FALSE, records |-> JList(<<>>)]
    ELSE
    LET result  == ParseOptimusdbResponse(
                       [t |-> "response", ok |-> answers[i].mode # "http_error",
                        body |-> BackendBody(IF answers[i].mode = "http_error"
                                             THEN "garbage" ELSE answers[i].mode,
                                             answers[i].records)])
        data    == IF IsDict(result) THEN Get(result, K.data, JObj(<<>>)) ELSE None
        records == IF IsDict(data) THEN Get(data, K.records, JList(<<>>)) ELSE JNull
        later   == SchemaQueries(answers, i + 1)
    IN  IF Truthy(records)
        THEN [posted |-> <<queries[i]>>, found |-> TRUE, records |-> records]
        ELSE [later EXCEPT !.posted = <<queries[i]>> \o later.posted]

\* OptimusDBProxy._get_table_schema_enhanced: the queries it posted and the schema
\* it returned. The sample strategy returns no column: self._infer_column_type is
\* no attribute of the class, so a sample record with a field raises inside the
\* try, and one without fields gives an empty schema.
GetTableSchemaEnhanced(answers) ==
    LET sql == SchemaQueries(answers, 1)
    IN  IF sql.found THEN [posted |-> sql.posted, out |-> sql.records]
        ELSE [posted |-> Append(sql.posted, queries[4]), out |-> JList(<<>>)]

\* how the node answers one query of schema discovery
SchemaAnswers ==
    {[mode |-> "ok", records |-> <<>>],
     [mode |-> "ok", records |-> <<JObj(<<Field(K.name, JStr(K.tags)),
                                          Field(K.type, JStr(S.varchar))>>)>>],
     [mode |-> "wrapped", records |-> <<JObj(<<Field(K.name, JStr(K.name)),
                                               Field(K.type, JStr(S.varchar))>>)>>],
     [mode |-> "http_error", records |-> <<>>],
     [mode |-> "unreachable", records |-> <<>>]}

\* _get_table_schema_enhanced is called; the node has an answer ready for each of
\* the four queries
SchemaCall ==
    /\ call.t = "none"
    /\ \E answers \in [1..4 -> SchemaAnswers] :
          LET done == GetTableSchemaEnhanced(answers)
          IN  call' = [t |-> "schema", answers |-> answers,
                       posted |-> done.posted, out |-> done.out]
    /\ UNCHANGED <<storeVars, normVars, codecVars, lookup, search>>

NextDispatch ==
    \/ TableInsert
    \/ BackendTurns
    \/ ExecuteSqlCall
    \/ SearchExecuteSqlCall
    \/ FacadeReadCall
    \/ LineageCall
    \/ DiscoverCall
    \/ SchemaCall

SpecDispatch == InitIdle /\ [][NextDispatch]_vars

\* C26: schema discovery posts the three introspection queries in order up to the
\* first one the node answers with rows, returns those rows and posts nothing
\* after it; it posts the sample query only after all three, when none gave rows,
\* also when the post of an earlier one raised.
C26_FirstFormWithRows ==
    (call.t = "schema")
    => LET rows(i) == /\ call.answers[i].mode \in {"ok", "wrapped"}
                      /\ call.answers[i].records # <<>>
       IN  IF \E i \in 1..3 : rows(i)
           THEN LET first == CHOOSE i \in 1..3 : rows(i) /\ \A j \in 1..(i - 1) : ~rows(j)
                IN  /\ call.posted = SubSeq(queries, 1, first)
                    /\ call.out = JList(call.answers[first].records)
           ELSE /\ call.posted = queries
                /\ call.out = JList(<<>>)

\* C17: when the node cannot be reached, every read operation returns its empty
\* result (no badges, the default user, no tables, no dashboards, no search hits)
\* and none reports status 500.
C17_ReadsRecoverEmpty ==
    (call.t = "read" /\ call.mode = "unreachable")
    => CASE call.op = "get_badges" -> call.out = <<>>
         [] call.op = "get_user" -> call.out.user_id = JStr(S.alice)
         [] call.op = "get_table_by_user_relation" ->
              call.out.table = <<>> /\ call.out.status_code # 500
         [] call.op = "get_dashboard_by_user_relation" ->
              call.out.dashboard = <<>> /\ call.out.status_code # 500
         [] call.op = "search" ->
              /\ call.out.results.table.results = <<>>
              /\ call.out.status_code # 500

\* C14: every call of either dispatcher posts exactly one request and returns a
\* reply mapping; when the post raises (connection refused, timeout) or the status
\* is not a success, it returns the empty record set and never reads the body.
C14_OneRequestNoRaise ==
    (call.t = "execute_sql")
    => /\ call.requests = 1
       /\ call.value # Raised
       /\ (call.mode \in {"unreachable", "http_error"})
          => /\ call.value = EmptyReply
             /\ ~call.body_read

\* the backend holds records and cannot be reached, and the metadata proxy's
\* dispatcher returned the empty record set after its one post
C14_Witness ==
    /\ call.t = "execute_sql"
    /\ call.service = "metadata"
    /\ call.mode = "unreachable"
    /\ call.stored # <<>>
    /\ call.value = EmptyReply

\* the entities the JSON text of a list of entities stands for, none for any
\* other value
LineageExpected(field_str) ==
    IF field_str.t = "wrapped" /\ field_str.text.depth = 0
                               /\ field_str.text.core.t = "list"
    THEN LET items == field_str.text.core.l
         IN  [i \in 1..Len(items) |->
                 [key    |-> IF items[i].t = "obj"
                             THEN Get(items[i], <<"k","e","y">>, JStr(<<>>))
                             ELSE items[i],
                  level  |-> IF items[i].t = "obj"
                             THEN Get(items[i], <<"l","e","v","e","l">>, JNum(1))
                             ELSE JNum(1),
                  source |-> S.optimusdb,
                  badges |-> <<>>]]
    ELSE <<>>

\* C19: get_lineage with direction "both" returns, for each direction on its own,
\* the normalised entities of a lineage field that holds the JSON text of a list,
\* and the empty list for a field that is malformed or holds no list.
C19_DirectionsIndependent ==
    (call.t = "lineage" /\ call.out.direction = "both" /\ call.mode = "ok")
    => /\ call.out.upstream_entities = LineageExpected(call.up)
       /\ call.out.downstream_entities = LineageExpected(call.down)

\* C20: discovery over two nodes returns the datasets of the first node followed
\* by those of the second, each as discovery over that node alone returns them,
\* whatever way the other node fails in; it returns a list of entries and never
\* raises.
C20_NodesIndependent ==
    (call.t = "discover")
    => /\ \A i \in 1..Len(call.out) : call.out[i].t = "entry"
       /\ call.out = DiscoverNodes(<<call.nodes[1]>>, <<call.answers[1]>>, 1)
                     \o DiscoverNodes(<<call.nodes[2]>>, <<call.answers[2]>>, 1)

\* the first node could not be reached and the dataset of the second was returned
C20_Witness ==
    /\ call.t = "discover"
    /\ call.answers[1].mode = "unreachable"
    /\ call.answers[1].records # <<>>
    /\ Len(call.out) = 1
    /\ call.out[1].cluster = call.nodes[2]
    /\ call.out[1].preview = RecSales

-----------------------------------------------------------------------------
(* Tag, owner and badge mutations, two at a time *)

\* ",".join(items)
RECURSIVE Join(_)
Join(items) ==
    IF items = <<>> THEN <<>>
    ELSE IF Len(items) = 1 THEN items[1]
    ELSE items[1] \o <<",">> \o Join(Tail(items))

\* the rows "where metadata_type='<schema>' and name='<name>'" selects
Matches(rec, schema, name) ==
    /\ rec.t = "obj"
    /\ Get(rec, K.metadata_type, JNull) = JStr(schema)
    /\ Get(rec, K.name, JNull) = JStr(name)

\* a datastore whose update adds the new items to the stored field
UpdateWhereMerging(cat, schema, name, field, new) ==
    [i \in 1..Len(cat) |->
        IF ~Matches(cat[i], schema, name) THEN cat[i]
        ELSE LET old == Get(cat[i], field, JStr(<<>>))
                 all == IF old.t = "str" /\ old.s # <<>> /\ new # <<>>
                        THEN old.s \o <<",">> \o new ELSE new
             IN  JObj([j \in 1..Len(cat[i].f) |->
                         IF cat[i].f[j].k = field THEN Field(field, JStr(all))
                         ELSE cat[i].f[j]])]

\* the datastore after "update datacatalog set <field>='<new>' where ...": the
\* whole field of every selected row is replaced
UpdateWhere(cat, schema, name, field, new) ==
    [i \in 1..Len(cat) |->
        IF ~Matches(cat[i], schema, name) THEN cat[i]
        ELSE IF HasKey(cat[i], field)
             THEN JObj([j \in 1..Len(cat[i].f) |->
                         IF cat[i].f[j].k = field THEN Field(field, JStr(new))
                         ELSE cat[i].f[j]])
             ELSE JObj(Append(cat[i].f, Field(field, JStr(new))))]

\* add_tag, delete_tag, add_badge, delete_badge, add_owner, delete_owner
Mutations ==
    {[field |-> f, add |-> a] : f \in {K.tags, K.badges, K.owners}, a \in BOOLEAN}

\* a mutation between its read and its write: the items it read, the field it is
\* about to write, or no write at all
Modify(m, value, records) ==
    LET skip == [write |-> FALSE, current |-> <<>>, new |-> <<>>]
    IN
    IF records.t # "list" THEN skip                   \* except Exception
    ELSE IF records.l = <<>>
    THEN IF m.add THEN [write |-> TRUE, current |-> <<>>, new |-> value] ELSE skip
    ELSE IF records.l[1].t # "obj" THEN skip          \* except Exception
    ELSE
    LET rec       == records.l[1]
        field_str == IF m.add /\ m.field = K.owners
                     THEN Or(Get(rec, K.owners, JStr(<<>>)),
                             Get(rec, K.created_by, JStr(<<>>)))
                     ELSE Get(rec, m.field, JStr(<<>>))
    IN  IF field_str.t # "str" THEN skip              \* .split raises
        ELSE LET current  == SplitCommaStripped(field_str.s)
                 modified ==
                     IF m.add
                     THEN IF \E i \in 1..Len(current) : current[i] = value
                          THEN current ELSE Append(current, value)
                     ELSE SelectSeq(current, LAMBDA x : x # value)
             IN  [write |-> TRUE, current |-> current, new |-> Join(modified)]

\* the resource two workers mutate at once, and the items they add or remove
Mutated ==
    [resource |-> ParseTableUri(
                      BuildTableKey(JStr(S.optimusdb), JStr(S.sales), JStr(S.orders))),
     items    |-> {S.alice, S.orders, <<" ">> \o S.alice},
     workers  |-> {1, 2}]

\* worker w is handed a mutation and runs it up to and including its read;
\* `stored` is what the datastore held in the field at that moment
MutationReads(w) ==
    /\ lookup.t = "none" /\ search.t = "none"
    /\ call.t \in {"none", "mutating"}
    /\ call.t = "mutating" => call.w[w].pc = "idle"
    /\ \E m \in Mutations, value \in Mutated.items :
          LET before   == IF call.t = "none"
                          THEN [t |-> "mutating",
                                w |-> [v \in Mutated.workers |-> [pc |-> "idle"]],
                                log |-> <<>>]
                          ELSE call
              selected == SelectSeq(catalog,
                              LAMBDA rec : Matches(rec, Mutated.resource.schema,
                                                   Mutated.resource.name))
              plan     == Modify(m, value,
                              RecordsOf(ExecuteSql(backend, selected).value))
          IN  call' = [before EXCEPT
                         !.w[w] = [pc |-> IF plan.write THEN "write" ELSE "done",
                                   m |-> m, value |-> value,
                                   current |-> plan.current, new |-> plan.new,
                                   stored |-> IF selected = <<>> THEN <<>>
                                              ELSE <<Get(selected[1], m.field,
                                                         JStr(<<>>))>>,
                                   trips |-> 1, out |-> None],
                         !.log = Append(before.log, <<w, "read">>)]
    /\ UNCHANGED <<storeVars, normVars, codecVars, lookup, search>>

\* worker w sends its update and returns
MutationWrites(w) ==
    /\ call.t = "mutating"
    /\ call.w[w].pc = "write"
    /\ catalog' = IF backend \in {"http_error", "unreachable"} THEN catalog
                  ELSE UpdateWhere(catalog, Mutated.resource.schema,
                                   Mutated.resource.name,
                                   call.w[w].m.field, call.w[w].new)
    /\ call' = [call EXCEPT !.w[w].pc = "done", !.w[w].trips = 2,
                            !.log = Append(call.log, <<w, "write">>)]
    /\ UNCHANGED <<backend, normVars, codecVars, lookup, search>>

\* the node, which failed the read of the one mutation under way, answers again
\* before its write
BackendRecovers ==
    /\ call.t = "mutating"
    /\ backend \in {"http_error", "unreachable"}
    /\ Len(call.log) = 1
    /\ \E w \in Mutated.workers : call.w[w].pc = "write"
    /\ backend' = "ok"
    /\ UNCHANGED <<catalog, normVars, codecVars, lookup, search, call>>

NextMutate ==
    \/ TableInsert
    \/ BackendTurns
    \/ BackendRecovers
    \/ \E w \in Mutated.workers : MutationReads(w)
    \/ \E w \in Mutated.workers : MutationWrites(w)

SpecMutate == InitIdle /\ [][NextMutate]_vars

\* both workers ran an add on the same field for different items, both read
\* before either wrote, and the node took both updates
BothReadFirst ==
    /\ call.t = "mutating"
    /\ backend \notin {"http_error", "unreachable"}
    /\ \A w \in Mutated.workers : call.w[w].pc = "done" /\ call.w[w].m.add
    /\ call.w[1].m.field = call.w[2].m.field
    /\ Strip(call.w[1].value) # Strip(call.w[2].value)
    /\ Len(call.log) = 4
    /\ call.log[1][2] = "read" /\ call.log[2][2] = "read"

\* C15: when two adds of different items (values that differ once surrounding blanks
\* are dropped) on the same resource and field both read
\* before either writes and the node takes both updates, the stored field ends as the later writer wrote it: it holds
\* the later item, the earlier item only if it was stored before, and neither add
\* raises.
C15_LostUpdate ==
    BothReadFirst
    => LET later   == call.w[call.log[4][1]]
           earlier == call.w[call.log[3][1]]
       IN  /\ later.out = None /\ earlier.out = None
           /\ \A i \in 1..Len(catalog) :
                 Matches(catalog[i], Mutated.resource.schema, Mutated.resource.name)
                 => /\ Get(catalog[i], later.m.field, JNull) = JStr(later.new)
                    /\ \E k \in 1..Len(SplitCommaStripped(later.new)) :
                          SplitCommaStripped(later.new)[k] = Strip(later.value)
                    /\ (\A k \in 1..Len(SplitCommaStripped(earlier.stored[1].s)) :
                           SplitCommaStripped(earlier.stored[1].s)[k]
                              # Strip(earlier.value))
                       => \A k \in 1..Len(SplitCommaStripped(later.new)) :
                             SplitCommaStripped(later.new)[k] # Strip(earlier.value)

\* add_badge of "alice" and add_badge of "orders" both read the resource without
\* badges, "orders" was written last, and the badges are "orders" alone
C15_Witness ==
    /\ BothReadFirst
    /\ call.w[call.log[3][1]].m.field = K.badges
    /\ call.w[call.log[3][1]].value = S.alice
    /\ \E i \in 1..Len(catalog) : Get(catalog[i], K.badges, JNull) = JStr(S.orders)

\* C16: every tag, owner or badge add or remove that has returned made exactly two
\* backend round-trips, its read and then its write.
C16_TwoRoundTrips ==
    (call.t = "mutating")
    => \A w \in Mutated.workers : call.w[w].pc = "done" => call.w[w].trips = 2

\* worker `first` ran an add from its read to its write on a node that answered
\* throughout, then worker `second` ran the same add of the same item
AddedTwice(first, second) ==
    /\ call.t = "mutating"
    /\ backend = "ok"
    /\ call.log = <<<<first, "read">>, <<first, "write">>,
                    <<second, "read">>, <<second, "write">>>>
    /\ call.w[first].m.add
    /\ call.w[first].m = call.w[second].m
    /\ call.w[first].value = call.w[second].value
    /\ call.w[first].stored # <<>>

\* C23: adding the same item twice, one add after the other, leaves the stored field
\* as the first add left it, with the item in it exactly once.
C23_AddTwiceIsAddOnce ==
    AddedTwice(1, 2)
    => /\ call.w[2].new = call.w[1].new
       /\ call.w[2].stored = <<JStr(call.w[1].new)>>
       /\ Cardinality({k \in 1..Len(SplitCommaStripped(call.w[2].new)) :
                          SplitCommaStripped(call.w[2].new)[k]
                             = Strip(call.w[1].value)}) = 1

\* C24: an add that runs alone, and whose update the node takes, removes no item:
\* every item stored in the field before it is stored after it, also when its read
\* failed.
C24_AddKeepsStored ==
    (/\ call.t = "mutating"
     /\ Len(call.log) = 2
     /\ backend = "ok"
     /\ \E w \in Mutated.workers :
           call.w[w].pc = "done" /\ call.w[w].trips = 2 /\ call.w[w].m.add)
    => LET w      == call.log[1][1]
           before == call.w[w].stored
       IN  \A i \in 1..Len(catalog) :
              (/\ Matches(catalog[i], Mutated.resource.schema, Mutated.resource.name)
               /\ before # <<>> /\ before[1].t = "str")
              => LET after == Get(catalog[i], call.w[w].m.field, JStr(<<>>))
                 IN  \A k \in 1..Len(SplitCommaStripped(before[1].s)) :
                        \E j \in 1..Len(SplitCommaStripped(after.s)) :
                           SplitCommaStripped(after.s)[j]
                              = SplitCommaStripped(before[1].s)[k]

-----------------------------------------------------------------------------
(* The background indexer: start(), stop() and the loop threads *)

\* start() and stop() invocations in a run, and indexing cycles begun in it
MaxCalls == 3
MaxCycles == 2

\* who calls start() and stop(): the application factory and the atexit handler
Callers == {1, 2}

\* the loop threads a run creates: two are enough for two to be alive at once
Threads == {1, 2}

\* the ways one _run_indexing ends
CyclePaths ==
    {"index_unreachable", "no_datasets", "verification_failed", "exception", "success"}

\* BackgroundIndexer.__init__: no thread, not running, all counters 0
NewIndexer(enabled) ==
    [t       |-> "indexer",
     enabled |-> enabled,
     running |-> FALSE,
     thread  |-> 0,
     stats   |-> [total_runs |-> 0, successful_runs |-> 0, failed_runs |-> 0],
     threads |-> [th \in Threads |-> [pc |-> "none"]],
     last    |-> "none",
     callers |-> [c \in Callers |-> "idle"],
     calls   |-> 0]

\* a BackgroundIndexer is constructed, with INDEXER_ENABLED set or not
IndexerCreated ==
    /\ call.t = "none"
    /\ Unqueried
    /\ \E enabled \in BOOLEAN : call' = NewIndexer(enabled)
    /\ UNCHANGED <<storeVars, normVars, codecVars, lookup, search>>

\* the threads between thread.start() and the return of _run_loop
Alive(threads) ==
    {th \in DOMAIN threads :
        threads[th].pc \in {"started", "indexing", "while", "sleeping", "entering"}}

\* `x += 1` on a counter of self.stats: it reads, adds and stores in separate
\* steps, so next to another running loop thread the increment may be lost
Incremented(x, th) ==
    {x + 1} \cup (IF Alive(call.threads) \ {th} # {} THEN {x} ELSE {})

\* start(), one statement at a time
Start(c) ==
    /\ call.t = "indexer"
    /\ \/ /\ call.callers[c] = "idle"                  \* the two tests
          /\ call.calls < MaxCalls
          /\ (call.enabled /\ ~call.running)
             => Cardinality({h \in Threads : call.threads[h].pc # "none"})
                + Cardinality({d \in Callers :
                                 call.callers[d] \in {"start_set", "start_assign"}})
                < Cardinality(Threads)
          /\ call' = [call EXCEPT
                        !.calls = @ + 1,
                        !.callers[c] = IF call.enabled /\ ~call.running
                                       THEN "start_set" ELSE "idle"]
       \/ /\ call.callers[c] = "start_set"             \* self.running = True
          /\ call' = [call EXCEPT !.running = TRUE, !.callers[c] = "start_assign"]
       \/ /\ call.callers[c] = "start_assign"          \* self.thread = Thread(...)
          /\ LET th == 1 + Cardinality({h \in Threads :
                                           call.threads[h].pc # "none"})
             IN  call' = [call EXCEPT !.thread = th, !.threads[th].pc = "created",
                                      !.callers[c] = "start_start"]
       \/ /\ call.callers[c] = "start_start"           \* self.thread.start()
          /\ call' = [call EXCEPT
                        !.threads[call.thread].pc =
                            IF @ = "created" THEN "started" ELSE @,  \* RuntimeError
                        !.callers[c] = "idle"]
    /\ UNCHANGED <<storeVars, normVars, codecVars, lookup, search>>

\* stop(), one statement at a time; join(timeout=5) returns when the thread has
\* returned, and without that when the thread is inside a cycle for longer or
\* keeps looping because running is True again
Stop(c) ==
    /\ call.t = "indexer"
    /\ \/ /\ call.callers[c] = "idle"                  \* if not self.running
          /\ call.calls < MaxCalls
          /\ call' = [call EXCEPT
                        !.calls = @ + 1,
                        !.callers[c] = IF call.running THEN "stop_set" ELSE "idle"]
       \/ /\ call.callers[c] = "stop_set"              \* self.running = False
          /\ call' = [call EXCEPT !.running = FALSE, !.callers[c] = "stop_join"]
       \/ /\ call.callers[c] = "stop_join"             \* self.thread.join(timeout=5)
          /\ IF call.thread = 0 THEN TRUE                \* if self.thread
             ELSE \/ call.threads[call.thread].pc \in {"created", "exited", "indexing"}
                  \/ call.running
          /\ call' = [call EXCEPT !.callers[c] = "idle"]
    /\ UNCHANGED <<storeVars, normVars, codecVars, lookup, search>>

\* _run_indexing up to its try: total_runs += 1
RunIndexingBegins(th) ==
    /\ call.stats.total_runs < MaxCycles
    /\ call.stats.successful_runs + call.stats.failed_runs < MaxCycles
    /\ \E n \in Incremented(call.stats.total_runs, th) :
          call' = [call EXCEPT !.stats.total_runs = n,
                               !.threads[th].pc = "indexing"]

\* _run_loop of thread th, one statement at a time: the first cycle, the while
\* test, the sleep with the test after it, the next cycle
RunLoop(th) ==
    /\ call.t = "indexer"
    /\ \/ /\ call.threads[th].pc \in {"started", "entering"}
          /\ RunIndexingBegins(th)
       \/ /\ call.threads[th].pc = "while"             \* while self.running
          /\ call' = [call EXCEPT !.threads[th].pc =
                         IF call.running THEN "sleeping" ELSE "exited"]
       \/ /\ call.threads[th].pc = "sleeping"          \* if self.running
          /\ call' = [call EXCEPT !.threads[th].pc =
                         IF call.running THEN "entering" ELSE "while"]
    /\ UNCHANGED <<storeVars, normVars, codecVars, lookup, search>>

\* the counter a cycle that ended on `path` adds to, taken as successful_runs for
\* "success" and as nothing for "no_datasets"
CountedRunUnlessEmpty(path) ==
    IF path = "success" THEN {"successful_runs"}
    ELSE IF path = "no_datasets" THEN {}
    ELSE {"failed_runs"}

\* the counter a cycle that ended on `path` adds to: "Cannot connect to
\* Elasticsearch" and any other exception reach the except clause
CountedRun(path) ==
    IF path = "success" THEN {"successful_runs"} ELSE {"failed_runs"}

\* the rest of _run_indexing in thread th: the cycle ends on one of its paths and
\* returns to _run_loop; `last` keeps the path
RunIndexing(th) ==
    /\ call.t = "indexer"
    /\ call.threads[th].pc = "indexing"
    /\ \E path \in CyclePaths :
          \E s \in IF "successful_runs" \in CountedRun(path)
                   THEN Incremented(call.stats.successful_runs, th)
                   ELSE {call.stats.successful_runs},
             f \in IF "failed_runs" \in CountedRun(path)
                   THEN Incremented(call.stats.failed_runs, th)
                   ELSE {call.stats.failed_runs} :
             call' = [call EXCEPT !.stats.successful_runs = s,
                                  !.stats.failed_runs = f,
                                  !.threads[th].pc = "while",
                                  !.last = path]
    /\ UNCHANGED <<storeVars, normVars, codecVars, lookup, search>>

NextIndexer ==
    \/ IndexerCreated
    \/ \E c \in Callers : Start(c)
    \/ \E c \in Callers : Stop(c)
    \/ \E th \in Threads : RunLoop(th)
    \/ \E th \in Threads : RunIndexing(th)

SpecIndexer == InitIdle /\ [][NextIndexer]_vars

\* C27: at most one loop thread of the indexer is alive, however start() and
\* stop() interleave.
C27_OneLoopThread ==
    (call.t = "indexer") => Cardinality(Alive(call.threads)) <= 1

\* C28: while running is False after stop() set it, and no start() is under way,
\* no thread enters _run_indexing.
C28_NoCycleAfterStop ==
    [][(/\ call.t = "indexer"
        /\ ~call.running
        /\ call.calls > 0
        /\ \A c \in Callers : call.callers[c] \in {"idle", "stop_join"}
        /\ call'.t = "indexer")
       => \A th \in Threads :
             call'.threads[th].pc = "indexing" => call.threads[th].pc = "indexing"]_vars

\* one loop thread was started, and no other
SingleThread(c) ==
    /\ c.t = "indexer"
    /\ \A th \in Threads \ {1} : c.threads[th].pc = "none"

\* C29: with a single loop thread, a step that begins a cycle adds one to
\* total_runs and nothing else, a step that ends one adds one to exactly one of
\* successful_runs and failed_runs (to the first on success only), leaves
\* total_runs equal to their sum and the thread in its loop; no other step
\* changes a counter, and the thread leaves its loop only at the while test.
C29_RunsAddUp ==
    [][(SingleThread(call) /\ SingleThread(call'))
       => LET pc   == call.threads[1].pc
              to   == [pc |-> call'.threads[1].pc, last |-> call'.last]
              old  == call.stats
              new  == call'.stats
          IN  /\ (pc # "indexing" /\ to.pc = "indexing")
                 => /\ new = [old EXCEPT !.total_runs = @ + 1]
                    /\ old.total_runs = old.successful_runs + old.failed_runs
              /\ (pc = "indexing" /\ to.pc # "indexing")
                 => /\ to.pc = "while"
                    /\ new.total_runs = old.total_runs
                    /\ new.total_runs = new.successful_runs + new.failed_runs
                    /\ IF to.last = "success"
                       THEN new = [old EXCEPT !.successful_runs = @ + 1]
                       ELSE new = [old EXCEPT !.failed_runs = @ + 1]
              /\ (pc = "indexing") = (to.pc = "indexing") => new = old
              /\ (pc # "exited" /\ to.pc = "exited") => pc = "while" /\ ~call.running]_vars

\* the single thread ended a cycle on an exception, counted it as failed, and went
\* on to a second cycle
C29_Witness ==
    /\ SingleThread(call)
    /\ call.threads[1].pc = "indexing"
    /\ call.last = "exception"
    /\ call.stats = [total_runs |-> 2, successful_runs |-> 0, failed_runs |-> 1]

====
